---------------------------- MODULE Spec2Model ----------------------------
(***************************************************************************)
(* Model of the geometry pipeline of maps3d_app: the mesh builders of      *)
(* core/mesh_builder.py and run_python_pipeline of core/pipeline.py.       *)
(*                                                                         *)
(* Numbers.  The code computes in float64; the model computes in exact     *)
(* rational arithmetic.  A rational is a pair <<n, d>> with d > 0 in       *)
(* lowest terms, so equal values are equal pairs.  The X and Y of a track  *)
(* prism corner involve the unit normal of a segment, i.e. a square root:  *)
(* such a coordinate is kept exactly as a triple <<a, b, r>> that stands   *)
(* for a + b / sqrt(r), with a, b rational and r a positive integer.       *)
(* Arrays are sequences; the code's 0-based index i is position i + 1.     *)
(***************************************************************************)
EXTENDS Integers, Sequences, FiniteSets, TLC

\* ------------------------------------------------------------------------
\* Exact rational arithmetic (the model's stand-in for float64).
\* An operator binds each argument once, as the element of a singleton set:
\* a call evaluates its arguments once, as a Python call does.
\* ------------------------------------------------------------------------

Abs(i) == IF i < 0 THEN -i ELSE i

\* The float64 values that are no rationals have denominator 0: not a number,
\* and the two infinities.
NaN == <<0, 0>>

PosInf == <<1, 0>>

NegInf == <<-1, 0>>

RECURSIVE GCD(_, _)
GCD(m, n) ==
    CHOOSE r \in {IF b = 0 THEN a ELSE GCD(b, a % b) : a \in {m}, b \in {n}} : TRUE

Rat(num, den) ==
    CHOOSE r \in
        {LET s == IF d < 0 THEN -1 ELSE 1
             g == GCD(Abs(n), Abs(d))
         IN  <<(s * n) \div g, (s * d) \div g>> : n \in {num}, d \in {den}} : TRUE

RInt(i) == <<i, 1>>

RZero == <<0, 1>>

RNeg(x) == CHOOSE r \in {<<-p[1], p[2]>> : p \in {x}} : TRUE

\* inf + (-inf) and every sum with not a number are not a number
RAdd(x, y) ==
    CHOOSE r \in
        {IF p[2] = 0 /\ q[2] = 0 THEN (IF p = q THEN p ELSE NaN)
         ELSE IF p[2] = 0 THEN p
         ELSE IF q[2] = 0 THEN q
         ELSE LET g == GCD(p[2], q[2])
              IN  Rat(p[1] * (q[2] \div g) + q[1] * (p[2] \div g), (p[2] \div g) * q[2])
         : p \in {x}, q \in {y}} : TRUE

RSub(x, y) == RAdd(x, RNeg(y))

\* inf * 0 and every product with not a number are not a number
RMul(x, y) ==
    CHOOSE r \in
        {IF p[2] = 0 \/ q[2] = 0
         THEN <<(IF p[1] > 0 THEN 1 ELSE IF p[1] < 0 THEN -1 ELSE 0)
                    * (IF q[1] > 0 THEN 1 ELSE IF q[1] < 0 THEN -1 ELSE 0), 0>>
         ELSE IF p[1] = 0 \/ q[1] = 0
         THEN RZero
         ELSE LET g1 == GCD(Abs(p[1]), q[2])
                  g2 == GCD(Abs(q[1]), p[2])
              IN  <<(p[1] \div g1) * (q[1] \div g2), (p[2] \div g2) * (q[2] \div g1)>>
         : p \in {x}, q \in {y}} : TRUE

\* x / y for y # 0
RDiv(x, y) ==
    CHOOSE r \in
        {RMul(p, IF q[1] < 0 THEN <<-q[2], -q[1]>> ELSE <<q[2], q[1]>>)
         : p \in {x}, q \in {y}} : TRUE

RSign(x) ==
    CHOOSE r \in {IF p[1] > 0 THEN 1 ELSE IF p[1] < 0 THEN -1 ELSE 0 : p \in {x}} : TRUE

RAbs(x) == CHOOSE r \in {<<Abs(p[1]), p[2]>> : p \in {x}} : TRUE

RFloor(x) == CHOOSE r \in {p[1] \div p[2] : p \in {x}} : TRUE

RCeil(x) == CHOOSE r \in {-((-p[1]) \div p[2]) : p \in {x}} : TRUE

\* x < y without forming a product of the two denominators: compare the
\* integer parts, then the reciprocals of the fractional parts.
\* Every comparison with not a number is false.
RECURSIVE RLt(_, _)
RLt(x, y) ==
    \E p \in {x}, q \in {y} :
        IF p = NaN \/ q = NaN THEN FALSE
        ELSE IF p[2] = 0 /\ q[2] = 0 THEN p[1] < q[1]
        ELSE IF p[2] = 0 THEN p[1] < 0
        ELSE IF q[2] = 0 THEN q[1] > 0
        ELSE
        \E fp \in {p[1] \div p[2]}, fq \in {q[1] \div q[2]} :
            \E rp \in {p[1] - fp * p[2]}, rq \in {q[1] - fq * q[2]} :
                IF fp # fq THEN fp < fq
                ELSE IF rq = 0 THEN FALSE
                ELSE IF rp = 0 THEN TRUE
                ELSE RLt(<<q[2], rq>>, <<p[2], rp>>)

RLe(x, y) == \E p \in {x}, q \in {y} : p # NaN /\ q # NaN /\ ~RLt(q, p)

RMin(x, y) == CHOOSE r \in {IF RLt(q, p) THEN q ELSE p : p \in {x}, q \in {y}} : TRUE

RMax(x, y) == CHOOSE r \in {IF RLt(p, q) THEN q ELSE p : p \in {x}, q \in {y}} : TRUE

\* numpy.clip(v, lo, hi) == minimum(maximum(v, lo), hi)
RClip(v, lo, hi) == RMin(RMax(v, lo), hi)

IMax(x, y) == CHOOSE r \in {IF i < j THEN j ELSE i : i \in {x}, j \in {y}} : TRUE

IMin(x, y) == CHOOSE r \in {IF i < j THEN i ELSE j : i \in {x}, j \in {y}} : TRUE

IClip(v, lo, hi) == IMin(IMax(v, lo), hi)

\* Python indexing a[i]: a negative index counts from the end.
PyIndex(a, idx) ==
    CHOOSE r \in {IF i < 0 THEN a[Len(a) + i + 1] ELSE a[i + 1] : i \in {idx}} : TRUE

\* b / sqrt(r) <= q, for rationals b, q and an integer r > 0, decided exactly
SurdLe(x, r, y) ==
    \E b \in {x}, q \in {y} :
        IF RSign(b) <= 0 /\ RSign(q) >= 0 THEN TRUE
        ELSE IF RSign(b) > 0 /\ RSign(q) < 0 THEN FALSE
        ELSE IF RSign(b) > 0
             THEN RLe(RMul(b, b), RMul(RMul(q, q), RInt(r)))
             ELSE RLe(RMul(RMul(q, q), RInt(r)), RMul(b, b))

\* lo <= a + b / sqrt(r) <= hi for a coordinate c = <<a, b, r>>
SurdWithin(c, lo, hi) ==
    /\ SurdLe(c[2], c[3], RSub(hi, c[1]))
    /\ SurdLe(RNeg(c[2]), c[3], RSub(c[1], lo))

\* ------------------------------------------------------------------------
\* Meshes: a trimesh.Trimesh built with process=False keeps the vertices and
\* faces exactly as given.
\* ------------------------------------------------------------------------

Trimesh(vertices, faces) == [vertices |-> vertices, faces |-> faces]

\* Python's None, and the value of a variable not assigned yet
None == "none"

\* ------------------------------------------------------------------------
\* mesh_builder.py: build_terrain_mesh
\* ------------------------------------------------------------------------

_grid_index(row, col, cols) == row * cols + col

\* One vertex per grid node, row-major (meshgrid + ravel): node (r, c) is at
\* (x_mm[c], y_mm[r]); the top copy carries z_mm[r][c].
TopVertices(x_mm, y_mm, z_mm, rows, cols) ==
    [k \in 1..(rows * cols) |->
        <<x_mm[((k - 1) % cols) + 1], y_mm[((k - 1) \div cols) + 1],
          z_mm[((k - 1) \div cols) + 1][((k - 1) % cols) + 1]>>]

\* the bottom copy is at -base_thickness_mm
BottomVertices(x_mm, y_mm, base_thickness_mm, rows, cols) ==
    [k \in 1..(rows * cols) |->
        <<x_mm[((k - 1) % cols) + 1], y_mm[((k - 1) \div cols) + 1],
          RNeg(base_thickness_mm)>>]

\* The first loop: per quad (r, c), row-major, two top and two bottom faces.
TopBottomFaces(rows, cols) ==
    [k \in 1..(4 * (rows - 1) * (cols - 1)) |->
        LET q == (k - 1) \div 4
            j == (k - 1) % 4
            r == q \div (cols - 1)
            c == q % (cols - 1)
            n == rows * cols
            v00 == _grid_index(r, c, cols)
            v10 == _grid_index(r + 1, c, cols)
            v01 == _grid_index(r, c + 1, cols)
            v11 == _grid_index(r + 1, c + 1, cols)
        IN  CASE j = 0 -> <<v00, v10, v01>>
              [] j = 1 -> <<v01, v10, v11>>
              [] j = 2 -> <<v00 + n, v01 + n, v10 + n>>
              [] OTHER -> <<v01 + n, v11 + n, v10 + n>>]

\* A variant of add_wall whose second face is wound the other way round
add_wall_second_reversed(top_a, top_b, n) ==
    << <<top_a, top_b, top_a + n>>, <<top_b, top_a + n, top_b + n>> >>

\* add_wall: the two faces that join top edge (top_a, top_b) to the bottom
add_wall(top_a, top_b, n) ==
    << <<top_a, top_b, top_a + n>>, <<top_b, top_b + n, top_a + n>> >>

\* for c in range(cols - 1): the walls under row 0 and under row rows-1
WallFacesAlongX(rows, cols) ==
    [k \in 1..(4 * (cols - 1)) |->
        LET c == (k - 1) \div 4
            j == (k - 1) % 4
            n == rows * cols
            w0 == add_wall(_grid_index(0, c, cols), _grid_index(0, c + 1, cols), n)
            w1 == add_wall(_grid_index(rows - 1, c + 1, cols),
                           _grid_index(rows - 1, c, cols), n)
        IN  IF j < 2 THEN w0[j + 1] ELSE w1[j - 1]]

\* A variant of the second wall loop that leaves the wall under column cols-1 out
WallFacesAlongY_first_column_only(rows, cols) ==
    [k \in 1..(2 * (rows - 1)) |->
        add_wall(_grid_index(((k - 1) \div 2) + 1, 0, cols),
                 _grid_index((k - 1) \div 2, 0, cols), rows * cols)[((k - 1) % 2) + 1]]

\* for r in range(rows - 1): the walls under column 0 and under column cols-1
WallFacesAlongY(rows, cols) ==
    [k \in 1..(4 * (rows - 1)) |->
        LET r == (k - 1) \div 4
            j == (k - 1) % 4
            n == rows * cols
            w0 == add_wall(_grid_index(r + 1, 0, cols), _grid_index(r, 0, cols), n)
            w1 == add_wall(_grid_index(r, cols - 1, cols),
                           _grid_index(r + 1, cols - 1, cols), n)
        IN  IF j < 2 THEN w0[j + 1] ELSE w1[j - 1]]

TerrainFaces(rows, cols) ==
    TopBottomFaces(rows, cols) \o WallFacesAlongX(rows, cols)
        \o WallFacesAlongY(rows, cols)

\* build_terrain_mesh never raises: whatever the shape of z_mm, it returns the
\* Trimesh of the 2 * rows * cols vertices and the faces the loops appended.
build_terrain_mesh(x_mm, y_mm, z_mm, base_thickness_mm) ==
    LET rows == Len(z_mm)
        cols == Len(z_mm[1])
    IN  Trimesh(TopVertices(x_mm, y_mm, z_mm, rows, cols)
                    \o BottomVertices(x_mm, y_mm, base_thickness_mm, rows, cols),
                TerrainFaces(rows, cols))

\* ------------------------------------------------------------------------
\* mesh_builder.py: sample_height_on_grid
\* ------------------------------------------------------------------------

\* numpy.searchsorted(a, v, side="right"): the binary search numpy runs, on
\* whatever order a has.
RECURSIVE BisectRight(_, _, _, _)
BisectRight(a, v, lo0, hi0) ==
    CHOOSE r \in
        {IF lo >= hi THEN lo
         ELSE IF RLt(v, a[lo + ((hi - lo) \div 2) + 1])
              THEN BisectRight(a, v, lo, lo + ((hi - lo) \div 2))
              ELSE BisectRight(a, v, lo + ((hi - lo) \div 2) + 1, hi)
         : lo \in {lo0}, hi \in {hi0}} : TRUE

searchsorted_right(a, v) == BisectRight(a, v, 0, Len(a))

\* z0 * (1 - ty) + z1 * ty, with z0 and z1 interpolated along x
Bilinear(z00, z10, z01, z11, tx, ty) ==
    RAdd(RMul(RAdd(RMul(z00, RSub(RInt(1), tx)), RMul(z10, tx)), RSub(RInt(1), ty)),
         RMul(RAdd(RMul(z01, RSub(RInt(1), tx)), RMul(z11, tx)), ty))

\* a mutant of CellFraction: the lower corner's weight is always whole
CellFraction_zero(x, x0, x1) == RZero

\* tx = 0.0 if x1 == x0 else (x - x0) / (x1 - x0)
CellFraction(x, x0, x1) ==
    IF x1 = x0 THEN RZero ELSE RDiv(RSub(x, x0), RSub(x1, x0))

sample_height_on_grid(x_mm, y_mm, z_mm, px, py) ==
    CHOOSE z \in
        {CHOOSE zz \in
            {Bilinear(PyIndex(PyIndex(z_mm, iy), ix),
                      PyIndex(PyIndex(z_mm, iy), ix + 1),
                      PyIndex(PyIndex(z_mm, iy + 1), ix),
                      PyIndex(PyIndex(z_mm, iy + 1), ix + 1),
                      CellFraction(x, PyIndex(x_mm, ix), PyIndex(x_mm, ix + 1)),
                      CellFraction(y, PyIndex(y_mm, iy), PyIndex(y_mm, iy + 1)))
             : ix \in {IClip(searchsorted_right(x_mm, x) - 1, 0, Len(x_mm) - 2)},
               iy \in {IClip(searchsorted_right(y_mm, y) - 1, 0, Len(y_mm) - 2)}} : TRUE
         : x \in {RClip(px, x_mm[1], x_mm[Len(x_mm)])},
           y \in {RClip(py, y_mm[1], y_mm[Len(y_mm)])}} : TRUE

\* ------------------------------------------------------------------------
\* mesh_builder.py: build_track_mesh
\* ------------------------------------------------------------------------

\* the segment-length threshold 1e-6 (mm) and the clearance 0.05 (mm)
MIN_SEGMENT_MM == <<1, 1000000>>

TRACK_CLEARANCE_MM == <<1, 20>>

\* the default of the parameter track_width_mm: 1.2
DEFAULT_TRACK_WIDTH_MM == <<6, 5>>

\* A variant of the skip test that skips a segment of length zero only
SegmentTooShort_zero_only(v) == v[1][1] = 0 /\ v[2][1] = 0

\* length = np.linalg.norm(v); if length < 1e-6: continue.
\* |v| < e is decided exactly: both components are below e in size and the
\* squares of v / e sum to less than 1.
SegmentTooShort(v) ==
    \E d \in {v} :
        /\ RLt(RAbs(d[1]), MIN_SEGMENT_MM)
        /\ RLt(RAbs(d[2]), MIN_SEGMENT_MM)
        /\ \E sx \in {RDiv(d[1], MIN_SEGMENT_MM)}, sy \in {RDiv(d[2], MIN_SEGMENT_MM)} :
               RLt(RAdd(RMul(sx, sx), RMul(sy, sy)), RInt(1))

\* v # 0 as the integer vector k of the same direction in lowest terms, so
\* that direction = v / length = k / sqrt(k[1]^2 + k[2]^2).
PrimitiveVector(v) ==
    CHOOSE k \in
        {<<a \div GCD(Abs(a), Abs(b)), b \div GCD(Abs(a), Abs(b))>>
         : a \in {v[1][1] * (v[2][2] \div GCD(v[1][2], v[2][2]))},
           b \in {v[2][1] * (v[1][2] \div GCD(v[1][2], v[2][2]))}} : TRUE

\* A variant of the offset that moves the corners by the whole ridge width
SegmentOffset_whole_width(v, track_width_mm) ==
    CHOOSE off \in
        {[ox |-> RMul(RInt(-k[2]), track_width_mm),
          oy |-> RMul(RInt(k[1]), track_width_mm),
          r |-> k[1] * k[1] + k[2] * k[2]]
         : k \in {PrimitiveVector(v)}} : TRUE

\* offset = normal * (track_width_mm / 2.0), normal = (-direction[1],
\* direction[0]): its components are ox / sqrt(r) and oy / sqrt(r).
SegmentOffset(v, track_width_mm) ==
    CHOOSE off \in
        {[ox |-> RMul(RInt(-k[2]), half),
          oy |-> RMul(RInt(k[1]), half),
          r |-> k[1] * k[1] + k[2] * k[2]]
         : k \in {PrimitiveVector(v)}, half \in {RDiv(track_width_mm, RInt(2))}} : TRUE

\* the corner p + s * offset at height z (s = -1: left, s = 1: right)
PrismCorner(p, s, off, z) ==
    << <<p[1], RMul(RInt(s), off.ox), off.r>>,
       <<p[2], RMul(RInt(s), off.oy), off.r>>, z >>

\* prism = [base0_l, base0_r, base1_l, base1_r, top0_l, top0_r, top1_l, top1_r]
SegmentPrism(p0, p1, x_mm, y_mm, z_mm, track_height_mm, track_width_mm) ==
    CHOOSE prism \in
        {<< PrismCorner(p0, -1, off, z0), PrismCorner(p0, 1, off, z0),
            PrismCorner(p1, -1, off, z1), PrismCorner(p1, 1, off, z1),
            PrismCorner(p0, -1, off, RAdd(z0, track_height_mm)),
            PrismCorner(p0, 1, off, RAdd(z0, track_height_mm)),
            PrismCorner(p1, -1, off, RAdd(z1, track_height_mm)),
            PrismCorner(p1, 1, off, RAdd(z1, track_height_mm)) >>
         : off \in {SegmentOffset(<<RSub(p1[1], p0[1]), RSub(p1[2], p0[2])>>,
                                  track_width_mm)},
           z0 \in {RAdd(sample_height_on_grid(x_mm, y_mm, z_mm, p0[1], p0[2]),
                        TRACK_CLEARANCE_MM)},
           z1 \in {RAdd(sample_height_on_grid(x_mm, y_mm, z_mm, p1[1], p1[2]),
                        TRACK_CLEARANCE_MM)}} : TRUE

local_faces ==
    << <<0, 2, 1>>, <<1, 2, 3>>,
       <<4, 5, 6>>, <<5, 7, 6>>,
       <<0, 1, 4>>, <<1, 5, 4>>,
       <<2, 6, 3>>, <<3, 6, 7>>,
       <<1, 3, 5>>, <<3, 7, 5>>,
       <<0, 4, 2>>, <<2, 4, 6>> >>

\* A variant of the face numbering that does not move the faces to the prism
PrismFaces_not_shifted(start) == local_faces

\* faces.append([start + idx for idx in face]) for face in local_faces
PrismFaces(start) ==
    [j \in 1..Len(local_faces) |->
        <<start + local_faces[j][1], start + local_faces[j][2],
          start + local_faces[j][3]>>]

\* for i in range(len(track_xy_mm) - 1), from i = first on, with the lists
\* vertices and faces built so far; the result is <<vertices, faces>>.
RECURSIVE SegmentLoop(_, _, _, _, _, _, _, _, _)
SegmentLoop(track_xy_mm, x_mm, y_mm, z_mm, track_height_mm, track_width_mm, first, vertices_so_far, faces_so_far) ==
    CHOOSE built \in
        {IF i >= Len(track_xy_mm) - 1 THEN <<vertices, faces>>
         ELSE IF SegmentTooShort(<<RSub(track_xy_mm[i + 2][1], track_xy_mm[i + 1][1]),
                                   RSub(track_xy_mm[i + 2][2], track_xy_mm[i + 1][2])>>)
              THEN SegmentLoop(track_xy_mm, x_mm, y_mm, z_mm, track_height_mm,
                               track_width_mm, i + 1, vertices, faces)
              ELSE SegmentLoop(track_xy_mm, x_mm, y_mm, z_mm, track_height_mm,
                               track_width_mm, i + 1,
                               vertices \o SegmentPrism(track_xy_mm[i + 1],
                                              track_xy_mm[i + 2], x_mm, y_mm, z_mm,
                                              track_height_mm, track_width_mm),
                               faces \o PrismFaces(Len(vertices)))
         : i \in {first}, vertices \in {vertices_so_far}, faces \in {faces_so_far}} : TRUE

build_track_mesh(track_xy_mm, x_mm, y_mm, z_mm, track_height_mm, track_width_mm) ==
    CHOOSE mesh \in
        {IF built[1] = <<>>
         THEN Trimesh(<<>>, <<>>)
         ELSE Trimesh(built[1], built[2])
         : built \in {SegmentLoop(track_xy_mm, x_mm, y_mm, z_mm, track_height_mm,
                                  track_width_mm, 0, <<>>, <<>>)}} : TRUE

\* ------------------------------------------------------------------------
\* gpx_loader.py: load_gpx_points
\* ------------------------------------------------------------------------

\* A trkpt element is a record of its attributes; one without lat or lon is
\* skipped.  The points are the rows [lon, lat] in file order.
\* a loader that appends (float(lat), float(lon))
GpxPoints_lat_first(trkpts) ==
    LET has(t) == "lat" \in DOMAIN t /\ "lon" \in DOMAIN t
        kept == SelectSeq(trkpts, has)
    IN  [i \in 1..Len(kept) |-> <<RInt(kept[i].lat), RInt(kept[i].lon)>>]

GpxPoints(trkpts) ==
    LET has(t) == "lat" \in DOMAIN t /\ "lon" \in DOMAIN t
        kept == SelectSeq(trkpts, has)
    IN  [i \in 1..Len(kept) |-> <<RInt(kept[i].lon), RInt(kept[i].lat)>>]

\* if len(points) < 2: raise ValueError
GpxTooFewPoints(points) == Len(points) < 2

\* ------------------------------------------------------------------------
\* pipeline.py: _compute_bbox and the body of run_python_pipeline
\* ------------------------------------------------------------------------

\* the span floor 1e-6 of _compute_bbox and of the model-space mapping
SPAN_FLOOR == <<1, 1000000>>

ColumnMin(points, k) ==
    CHOOSE m \in {points[i][k] : i \in 1..Len(points)} :
        \A i \in 1..Len(points) : RLe(m, points[i][k])

ColumnMax(points, k) ==
    CHOOSE m \in {points[i][k] : i \in 1..Len(points)} :
        \A i \in 1..Len(points) : RLe(points[i][k], m)

\* a bounding box whose margins are taken from the spans as they are
_compute_bbox_without_floor(points, margin_ratio) ==
    LET minx == ColumnMin(points, 1)
        miny == ColumnMin(points, 2)
        maxx == ColumnMax(points, 1)
        maxy == ColumnMax(points, 2)
        mx == RMul(RSub(maxx, minx), margin_ratio)
        my == RMul(RSub(maxy, miny), margin_ratio)
    IN  <<RSub(minx, mx), RSub(miny, my), RAdd(maxx, mx), RAdd(maxy, my)>>

\* returns <<minx - mx, miny - my, maxx + mx, maxy + my>>
_compute_bbox(points, margin_ratio) ==
    LET minx == ColumnMin(points, 1)
        miny == ColumnMin(points, 2)
        maxx == ColumnMax(points, 1)
        maxy == ColumnMax(points, 2)
        dx == RMax(RSub(maxx, minx), SPAN_FLOOR)
        dy == RMax(RSub(maxy, miny), SPAN_FLOOR)
        mx == RMul(dx, margin_ratio)
        my == RMul(dy, margin_ratio)
    IN  <<RSub(minx, mx), RSub(miny, my), RAdd(maxx, mx), RAdd(maxy, my)>>

\* Transformer.from_crs("EPSG:4326", ds.crs, always_xy=True).transform: pyproj
\* is outside the repository; the model's projection halves both coordinates,
\* a one-to-one, order-preserving map that is not the identity.
TransformToDem(points_lonlat) ==
    [i \in 1..Len(points_lonlat) |->
        <<RDiv(points_lonlat[i][1], RInt(2)), RDiv(points_lonlat[i][2], RInt(2))>>]

\* rasterio.windows.from_bounds(minx, miny, maxx, maxy, transform): the
\* fractional pixel window spanned by the corners of the box, for a transform
\* t = [a, e, c, f] without rotation (x = c + col * a, y = f + row * e).
from_bounds(bbox, t) ==
    LET col0 == RDiv(RSub(bbox[1], t.c), t.a)
        col1 == RDiv(RSub(bbox[3], t.c), t.a)
        row0 == RDiv(RSub(bbox[4], t.f), t.e)
        row1 == RDiv(RSub(bbox[2], t.f), t.e)
    IN  [col_off |-> RMin(col0, col1), row_off |-> RMin(row0, row1),
         width |-> RAbs(RSub(col1, col0)), height |-> RAbs(RSub(row1, row0))]

\* Window.round_offsets() (floor) and Window.round_lengths() (ceil)
round_offsets(w) ==
    [w EXCEPT !.col_off = RInt(RFloor(w.col_off)), !.row_off = RInt(RFloor(w.row_off))]

round_lengths(w) ==
    [w EXCEPT !.width = RInt(RCeil(w.width)), !.height = RInt(RCeil(w.height))]

\* np.isfinite: neither not a number nor an infinity
isfinite(v) == v[2] # 0

\* ds.read(1, window=window, masked=True) followed by data.filled(np.nan): a
\* read that is not boundless crops the window to the raster, so the array has
\* the rows and columns of the window that lie inside it (possibly none);
\* masked cells come out as NaN.
CropWindow(ds, w) ==
    LET row_start == IMin(IMax(RFloor(w.row_off), 0), ds.height)
        col_start == IMin(IMax(RFloor(w.col_off), 0), ds.width)
        row_stop == IMax(0, IMin(RFloor(w.row_off) + RFloor(w.height), ds.height))
        col_stop == IMax(0, IMin(RFloor(w.col_off) + RFloor(w.width), ds.width))
    IN  [row_start |-> row_start, col_start |-> col_start,
         nrows |-> IMax(row_stop - row_start, 0),
         ncols |-> IMax(col_stop - col_start, 0)]

ReadWindowFilled(ds, w) ==
    LET cw == CropWindow(ds, w)
    IN  [r \in 1..cw.nrows |-> [c \in 1..cw.ncols |->
            ds.band[cw.row_start + r][cw.col_start + c]]]

\* data.size
ArraySize(a) == IF Len(a) = 0 THEN 0 ELSE Len(a) * Len(a[1])

\* ds.window_transform(window): the raster's transform moved to the window's
\* (not cropped) offsets
window_transform(t, w) ==
    [t EXCEPT !.c = RAdd(t.c, RMul(w.col_off, t.a)),
              !.f = RAdd(t.f, RMul(w.row_off, t.e))]

\* a validity test that wants every cell finite (all() in place of any())
AnyFinite_all(dem) ==
    \A r \in 1..Len(dem) : \A c \in 1..Len(dem[r]) : isfinite(dem[r][c])

AnyFinite(dem) ==
    \E r \in 1..Len(dem) : \E c \in 1..Len(dem[r]) : isfinite(dem[r][c])

\* float(np.nanmin(dem)): the least of the values that are numbers, minus
\* infinity among them
nanmin(dem) ==
    LET vals == {dem[r][c] : r \in 1..Len(dem), c \in 1..Len(dem[1])}
        numbers == {v \in vals : v # NaN}
    IN  CHOOSE m \in numbers : \A v \in numbers : RLe(m, v)

\* np.where(np.isfinite(dem), dem, min_elev)
FillWithMin(dem, min_elev) ==
    [r \in 1..Len(dem) |-> [c \in 1..Len(dem[r]) |->
        IF isfinite(dem[r][c]) THEN dem[r][c] ELSE min_elev]]

\* win_t.c + (cols_idx + 0.5) * win_t.a and win_t.f + (rows_idx + 0.5) * win_t.e
CellCoords(origin, step, n) ==
    [i \in 1..n |-> RAdd(origin, RMul(<<2 * (i - 1) + 1, 2>>, step))]

SeqMin(a) == CHOOSE m \in {a[i] : i \in 1..Len(a)} : \A i \in 1..Len(a) : RLe(m, a[i])

SeqMax(a) == CHOOSE m \in {a[i] : i \in 1..Len(a)} : \A i \in 1..Len(a) : RLe(a[i], m)

\* dx = max(abs(x_max - x_min), 1e-6)
CoordSpan(coords) == RMax(RAbs(RSub(SeqMax(coords), SeqMin(coords))), SPAN_FLOOR)

\* (coords - min(x_min, x_max)) / dx * size, for one value
ToModelAxis(v, coords, size_mm) ==
    RMul(RDiv(RSub(v, RMin(SeqMin(coords), SeqMax(coords))), CoordSpan(coords)),
         size_mm)

\* np.sort
RECURSIVE np_sort(_)
np_sort(a) ==
    IF Len(a) = 0 THEN <<>>
    ELSE LET i == CHOOSE i \in 1..Len(a) : \A j \in 1..Len(a) : RLe(a[i], a[j])
         IN  <<a[i]>> \o np_sort([k \in 1..(Len(a) - 1) |-> IF k < i THEN a[k] ELSE a[k + 1]])

\* np.flipud
flipud(a) == [r \in 1..Len(a) |-> a[Len(a) + 1 - r]]

\* x_mm = (x_coords - min(x_min, x_max)) / dx * config.model_width_mm
ModelX(x_coords, config) ==
    [i \in 1..Len(x_coords) |-> ToModelAxis(x_coords[i], x_coords, config.model_width_mm)]

\* y_mm = np.sort((y_coords - min(y_min, y_max)) / dy * config.model_height_mm)
ModelY(y_coords, config) ==
    np_sort([i \in 1..Len(y_coords) |->
        ToModelAxis(y_coords[i], y_coords, config.model_height_mm)])

\* A variant of the row orientation that leaves the rows as read
OrientRows_as_read(dem, y_coords) == dem

\* if y_coords[0] > y_coords[-1]: dem = np.flipud(dem)
OrientRows(dem, y_coords) ==
    IF RLt(y_coords[Len(y_coords)], y_coords[1]) THEN flipud(dem) ELSE dem

\* A variant of the scale that takes the larger of the two per-axis scales
HorizScale_larger(x_coords, y_coords, config) ==
    RMax(RDiv(config.model_width_mm, CoordSpan(x_coords)),
         RDiv(config.model_height_mm, CoordSpan(y_coords)))

\* horiz_scale_mm_per_unit = min(model_width_mm / dx, model_height_mm / dy)
HorizScale(x_coords, y_coords, config) ==
    RMin(RDiv(config.model_width_mm, CoordSpan(x_coords)),
         RDiv(config.model_height_mm, CoordSpan(y_coords)))

\* z_mm = (dem - min_elev) * horiz_scale_mm_per_unit * config.vertical_scale
ModelZ(dem, min_elev, scale, config) ==
    [r \in 1..Len(dem) |-> [c \in 1..Len(dem[r]) |->
        RMul(RMul(RSub(dem[r][c], min_elev), scale), config.vertical_scale)]]

\* track_xy_mm = column_stack((track_x_mm, track_y_mm))
ModelTrack(points_dem, x_coords, y_coords, config) ==
    [i \in 1..Len(points_dem) |->
        <<ToModelAxis(points_dem[i][1], x_coords, config.model_width_mm),
          ToModelAxis(points_dem[i][2], y_coords, config.model_height_mm)>>]

\* A variant of the concatenation that keeps the second mesh only
concatenate_second_only(a, b) == b

\* trimesh.util.concatenate([a, b]): the vertices of a then of b, the faces of
\* a then those of b moved past a's vertices
concatenate(a, b) ==
    Trimesh(a.vertices \o b.vertices,
            a.faces \o [j \in 1..Len(b.faces) |->
                <<b.faces[j][1] + Len(a.vertices), b.faces[j][2] + Len(a.vertices),
                  b.faces[j][3] + Len(a.vertices)>>])

\* ------------------------------------------------------------------------
\* blender_backend.py: _compute_dem_metrics
\* ------------------------------------------------------------------------

\* float(np.min(dem[valid_mask])) and float(np.max(dem[valid_mask])), the
\* valid cells being those that are not masked and finite
ValidMin(dem) ==
    LET valid == {v \in {dem[r][c] : r \in 1..Len(dem), c \in 1..Len(dem[1])} : isfinite(v)}
    IN  CHOOSE m \in valid : \A v \in valid : RLe(m, v)

ValidMax(dem) ==
    LET valid == {v \in {dem[r][c] : r \in 1..Len(dem), c \in 1..Len(dem[1])} : isfinite(v)}
    IN  CHOOSE m \in valid : \A v \in valid : RLe(v, m)

\* z_range_src = max(z_max_src - z_min_src, 0.0)
ElevationRange(z_min_src, z_max_src) == RMax(RSub(z_max_src, z_min_src), RZero)

\* z_range_src <= 1e-12, decided on the range in units of 1e-6
RangeIsFlat(z_range_src) ==
    \E q \in {RMul(z_range_src, RInt(1000000))} : RLe(q, <<1, 1000000>>)

\* A variant of the normalisation that divides by the highest elevation
Normalized01_by_maximum(dem_filled, z_min_src, z_range_src) ==
    [r \in 1..Len(dem_filled) |-> [c \in 1..Len(dem_filled[r]) |->
        IF RangeIsFlat(z_range_src) THEN RZero
        ELSE RClip(RDiv(RSub(dem_filled[r][c], z_min_src),
                        RAdd(z_range_src, z_min_src)), RZero, RInt(1))]]

\* A variant of the normalisation that does not take the minimum off
Normalized01_minimum_kept(dem_filled, z_min_src, z_range_src) ==
    [r \in 1..Len(dem_filled) |-> [c \in 1..Len(dem_filled[r]) |->
        IF RangeIsFlat(z_range_src) THEN RZero
        ELSE RClip(RDiv(dem_filled[r][c], z_range_src), RZero, RInt(1))]]

\* np.zeros_like(dem_filled) if z_range_src <= 1e-12
\* else np.clip((dem_filled - z_min_src) / z_range_src, 0.0, 1.0)
Normalized01(dem_filled, z_min_src, z_range_src) ==
    [r \in 1..Len(dem_filled) |-> [c \in 1..Len(dem_filled[r]) |->
        IF RangeIsFlat(z_range_src) THEN RZero
        ELSE RClip(RDiv(RSub(dem_filled[r][c], z_min_src), z_range_src),
                   RZero, RInt(1))]]

\* the normaliser of lines 56 to 60 as a whole, on an array with at least one
\* valid cell: z_min_src and z_max_src over the valid cells, the fill of the
\* invalid ones, the range and the normalised field
Normalize(dem) ==
    CHOOSE n \in
        {Normalized01(FillWithMin(dem, z_min_src), z_min_src,
                      ElevationRange(z_min_src, z_max_src))
         : z_min_src \in {ValidMin(dem)}, z_max_src \in {ValidMax(dem)}} : TRUE

\* The tuple returned for the window w, the array read in it and the track:
\* (normalized01, track_xy_mm, 0.0, z_range_mm, z_range_mm, dx, dy,
\*  (x_min, y_min, x_max, y_max), (sign of x_max - x_min, of y_max - y_min))
DemMetrics(ds, w, data, points_dem, params) ==
    CHOOSE m \in
        {[normalized01 |->
              OrientRows(Normalized01(FillWithMin(data, z_min_src), z_min_src,
                                      ElevationRange(z_min_src, z_max_src)),
                         y_coords),
          track_xy_mm |-> ModelTrack(points_dem, x_coords, y_coords, params),
          z_min_mm |-> RZero,
          z_max_mm |-> RMul(RSub(z_max_src, z_min_src),
                            HorizScale(x_coords, y_coords, params)),
          z_range_mm |-> RMul(RSub(z_max_src, z_min_src),
                              HorizScale(x_coords, y_coords, params)),
          dx |-> CoordSpan(x_coords),
          dy |-> CoordSpan(y_coords),
          bounds |-> <<SeqMin(x_coords), SeqMin(y_coords),
                       SeqMax(x_coords), SeqMax(y_coords)>>,
          signs |-> <<IF RLe(SeqMin(x_coords), SeqMax(x_coords)) THEN 1 ELSE -1,
                      IF RLe(SeqMin(y_coords), SeqMax(y_coords)) THEN 1 ELSE -1>>]
         : z_min_src \in {ValidMin(data)},
           z_max_src \in {ValidMax(data)},
           x_coords \in {CellCoords(window_transform(ds.transform, w).c,
                                    window_transform(ds.transform, w).a, Len(data[1]))},
           y_coords \in {CellCoords(window_transform(ds.transform, w).f,
                                    window_transform(ds.transform, w).e, Len(data))}} : TRUE

\* ------------------------------------------------------------------------
\* Bounds of the model and the inputs drawn from them
\* ------------------------------------------------------------------------

\* largest number of rows and of columns of a height grid handed to the builders
MaxDim == 3

\* largest number of points of a track polyline
MaxTrackLen == 3

\* Height grids: flat, a ramp whose cells are all different, and a bumpy one
GridKinds == {"flat", "ramp", "bumpy"}

GridStep(kind) ==
    IF kind = "ramp" THEN <<<<3, 2>>, <<2, 1>>>> ELSE <<<<1, 1>>, <<1, 1>>>>

GridHeight(kind, r, c, cols) ==
    CASE kind = "flat" -> RZero
      [] kind = "ramp" -> Rat(r * cols + c, 2)
      [] OTHER -> RInt((2 * r + 3 * c) % 4)

GridX(kind, cols) == [c \in 1..cols |-> RMul(RInt(c - 1), GridStep(kind)[1])]

GridY(kind, rows) == [r \in 1..rows |-> RMul(RInt(r - 1), GridStep(kind)[2])]

GridZ(kind, rows, cols) ==
    [r \in 1..rows |-> [c \in 1..cols |-> GridHeight(kind, r - 1, c - 1, cols)]]

\* Track points (mm).  LinePoints lie on one line, half a micrometre-thousandth
\* apart, so that segments below, at and above the 1e-6 threshold occur;
\* PlanePoints give segments along +y, -y and into all four quadrants.
LinePoints == {<<RZero, RZero>>, <<<<1, 2000000>>, RZero>>, <<<<3, 2000000>>, RZero>>}

PlanePoints == {<<RZero, RZero>>, <<RZero, RInt(2)>>, <<RInt(3), RInt(1)>>}

SeqsUpTo(S, n) == UNION {[1..m -> S] : m \in 0..n}

TrackInputs == SeqsUpTo(LinePoints, MaxTrackLen) \cup SeqsUpTo(PlanePoints, MaxTrackLen)

WidthInputs == {DEFAULT_TRACK_WIDTH_MM, RInt(2)}

\* Configurations (GenerateConfig): a square footprint, a 2:1 footprint with
\* vertical exaggeration, a square one with a margin so large that the box of
\* a single point spans pixels, and a square one whose margin of 0.3 takes
\* the box of a track near the edge of the raster past that edge.
Config(w, h, vs, margin) ==
    [model_width_mm |-> RInt(w), model_height_mm |-> RInt(h),
     base_thickness_mm |-> RInt(5), vertical_scale |-> RInt(vs),
     track_height_mm |-> RInt(2), bbox_margin_ratio |-> margin]

ConfigInputs ==
    {Config(4, 4, 1, <<1, 10>>), Config(8, 4, 2, <<1, 10>>),
     Config(4, 4, 1, RInt(1000000)), Config(4, 4, 1, <<3, 10>>)}

\* GPX files: trkpt elements at three places (lon, lat), which project to the
\* centres of raster cells.
TrkptInputs == {[lon |-> 1, lat |-> 1], [lon |-> 5, lat |-> 3], [lon |-> 1, lat |-> 5]}

\* a track reprojected to x = MaxDim + 1.5 and MaxDim + 2.5: beside the
\* rasters below, which end at x = MaxDim
OutsideTracks ==
    {<<[lon |-> 2 * MaxDim + 3, lat |-> 1], [lon |-> 2 * MaxDim + 5, lat |-> 3]>>}

GpxInputs == SeqsUpTo(TrkptInputs, MaxTrackLen) \cup OutsideTracks

\* trkpt elements for the calls of load_gpx_points alone: some lack the lat
\* attribute, the lon attribute or both
PartialTrkpts == {[lat |-> 7], [lon |-> 9], [ele |-> 0]}

LoaderInputs == SeqsUpTo(TrkptInputs \cup PartialTrkpts, MaxTrackLen)

\* Rasters of MaxDim x MaxDim cells of size 1 that cover [0, MaxDim]^2 in
\* projected units, for each sign of the pixel width a and pixel height e.
RasterKinds == {"ramp", "flat", "holes", "void", "nocrs", "neginf"}

Orientations == {<<1, -1>>, <<1, 1>>, <<-1, -1>>}

RasterCell(kind, row, col) ==
    CASE kind = "flat" -> RInt(100)
      [] kind = "void" -> NaN
      [] kind = "holes" /\ (row + col) % 3 = 0 -> NaN
      [] kind = "neginf" /\ (row + col) % 3 = 1 -> NegInf
      [] OTHER -> RInt(100 + row * MaxDim + col)

Raster(kind, o) ==
    [crs |-> IF kind = "nocrs" THEN None ELSE "EPSG:32632",
     transform |-> [a |-> RInt(o[1]), e |-> RInt(o[2]),
                    c |-> IF o[1] > 0 THEN RZero ELSE RInt(MaxDim),
                    f |-> IF o[2] > 0 THEN RZero ELSE RInt(MaxDim)],
     width |-> MaxDim, height |-> MaxDim,
     band |-> [r \in 1..MaxDim |-> [c \in 1..MaxDim |-> RasterCell(kind, r - 1, c - 1)]]]

\* ------------------------------------------------------------------------
\* State
\* ------------------------------------------------------------------------

VARIABLES
    pc,             \* the stage the run is at, or where the builders' caller is
    gpx_trkpts,     \* the trkpt elements of the GPX file
    ds,             \* the raster dataset
    config,         \* the GenerateConfig of the call
    points_lonlat, points_dem, bbox,
    window,         \* the rounded pixel window
    dem,            \* the elevations read, then filled, then oriented
    min_elev,
    x_mm, y_mm,     \* sample coordinates handed to the builders
    z_mm,           \* height grid handed to the builders (rows of cells)
    track_xy_mm,    \* the polyline handed to build_track_mesh
    track_width_mm, \* the ridge width build_track_mesh was called with
    terrain_mesh, track_mesh, final_mesh,
    out_dir_created,
    stl_file,       \* the mesh written to stl_output_path
    error,          \* the exception that ended the run
    metrics,        \* the tuple _compute_dem_metrics returned
    clip,           \* a call of _run_elevation_clip and its child process
    download,       \* a call of download_srtm_dem_for_bbox and its output file
    main_window,    \* MainWindow: its job thread, progress bar and buttons
    sample          \* a call of sample_height_on_grid: the query and the height returned

inputs == <<gpx_trkpts, ds, config>>

raster_vars == <<points_lonlat, points_dem, bbox, window, dem, min_elev>>

model_vars == <<x_mm, y_mm, z_mm, track_xy_mm>>

mesh_vars == <<track_width_mm, terrain_mesh, track_mesh, final_mesh>>

output_vars == <<out_dir_created, stl_file, error>>

app_vars == <<clip, download, main_window, sample>>

vars == <<pc, inputs, raster_vars, model_vars, mesh_vars, output_vars, metrics, app_vars>>

ErrGpx == "ValueError: Il file GPX deve contenere almeno 2 punti traccia."

ErrNoCrs == "ValueError: Il DEM non ha CRS definito."

ErrEmptyWindow == "ValueError: Ritaglio DEM vuoto: controlla GPX e DEM."

ErrNoValid == "ValueError: Ritaglio DEM privo di valori validi."

ErrEmptyMesh == "ValueError: Mesh vuota, impossibile esportare STL."

\* what mkdir and export raise (OSError; ValueError for an unknown file type)
ErrMkdir == "OSError: mkdir"

ErrExport == "export failed"

\* ------------------------------------------------------------------------
\* A caller of mesh_builder.py: it holds a height grid and calls
\* build_terrain_mesh, then build_track_mesh with a polyline and a width.
\* ------------------------------------------------------------------------

InitBuilders ==
    \E kind \in GridKinds, rows \in 1..MaxDim, cols \in 1..MaxDim :
        /\ pc = "call_terrain"
        /\ x_mm = GridX(kind, cols)
        /\ y_mm = GridY(kind, rows)
        /\ z_mm = GridZ(kind, rows, cols)
        /\ config = Config(4, 4, 1, <<1, 10>>)
        /\ gpx_trkpts = None /\ ds = None
        /\ points_lonlat = None /\ points_dem = None /\ bbox = None
        /\ window = None /\ dem = None /\ min_elev = None
        /\ track_xy_mm = None /\ track_width_mm = None
        /\ terrain_mesh = None /\ track_mesh = None /\ final_mesh = None
        /\ out_dir_created = FALSE /\ stl_file = None /\ error = None
        /\ metrics = None
        /\ clip = None /\ download = None /\ main_window = None /\ sample = None

CallBuildTerrainMesh ==
    /\ pc = "call_terrain"
    /\ terrain_mesh' = build_terrain_mesh(x_mm, y_mm, z_mm, config.base_thickness_mm)
    /\ pc' = "call_track"
    /\ UNCHANGED <<inputs, app_vars, metrics, raster_vars, model_vars, track_width_mm, track_mesh,
                   final_mesh, output_vars>>

CallBuildTrackMesh ==
    /\ pc = "call_track"
    /\ \E t \in TrackInputs, w \in WidthInputs :
        /\ track_xy_mm' = t
        /\ track_width_mm' = w
        /\ track_mesh' = build_track_mesh(t, x_mm, y_mm, z_mm,
                                          config.track_height_mm, w)
    /\ pc' = "returned"
    /\ UNCHANGED <<inputs, app_vars, metrics, raster_vars, x_mm, y_mm, z_mm, terrain_mesh,
                   final_mesh, output_vars>>

\* ------------------------------------------------------------------------
\* pipeline.py: run_python_pipeline, one action per stage
\* ------------------------------------------------------------------------

InitPipeline ==
    \E g \in GpxInputs, kind \in RasterKinds, o \in Orientations, cfg \in ConfigInputs :
        /\ pc = "load"
        /\ gpx_trkpts = g
        /\ ds = Raster(kind, o)
        /\ config = cfg
        /\ points_lonlat = None /\ points_dem = None /\ bbox = None
        /\ window = None /\ dem = None /\ min_elev = None
        /\ x_mm = None /\ y_mm = None /\ z_mm = None
        /\ track_xy_mm = None /\ track_width_mm = None
        /\ terrain_mesh = None /\ track_mesh = None /\ final_mesh = None
        /\ out_dir_created = FALSE /\ stl_file = None /\ error = None
        /\ metrics = None
        /\ clip = None /\ download = None /\ main_window = None /\ sample = None

\* raise: the run ends with the exception, nothing else changes
Raise(e) ==
    /\ pc' = "failed"
    /\ error' = e
    /\ UNCHANGED <<out_dir_created, stl_file>>

\* points_lonlat = load_gpx_points(gpx_path)
LoadTrack ==
    /\ pc = "load"
    /\ IF GpxTooFewPoints(GpxPoints(gpx_trkpts))
       THEN Raise(ErrGpx) /\ UNCHANGED points_lonlat
       ELSE /\ points_lonlat' = GpxPoints(gpx_trkpts)
            /\ pc' = "reproject"
            /\ UNCHANGED output_vars
    /\ UNCHANGED <<inputs, app_vars, metrics, points_dem, bbox, window, dem, min_elev, model_vars,
                   mesh_vars>>

\* a reprojection that builds the transformer without looking at ds.crs
Reproject_without_crs_check ==
    /\ pc = "reproject"
    /\ points_dem' = TransformToDem(points_lonlat)
    /\ pc' = "bbox"
    /\ UNCHANGED <<inputs, app_vars, metrics, points_lonlat, bbox, window, dem, min_elev, model_vars,
                   mesh_vars, output_vars>>

\* the CRS check, then the transform of the track into the raster's CRS
Reproject ==
    /\ pc = "reproject"
    /\ IF ds.crs = None
       THEN Raise(ErrNoCrs) /\ UNCHANGED points_dem
       ELSE /\ points_dem' = TransformToDem(points_lonlat)
            /\ pc' = "bbox"
            /\ UNCHANGED output_vars
    /\ UNCHANGED <<inputs, app_vars, metrics, points_lonlat, bbox, window, dem, min_elev, model_vars,
                   mesh_vars>>

ComputeBBox ==
    /\ pc = "bbox"
    /\ bbox' = _compute_bbox(points_dem, config.bbox_margin_ratio)
    /\ pc' = "window"
    /\ UNCHANGED <<inputs, app_vars, metrics, points_lonlat, points_dem, window, dem, min_elev,
                   model_vars, mesh_vars, output_vars>>

\* a read whose array goes on to the fill whatever its size
ReadWindow_without_size_check ==
    /\ pc = "window"
    /\ window' = round_lengths(round_offsets(from_bounds(bbox, ds.transform)))
    /\ dem' = ReadWindowFilled(ds, round_lengths(round_offsets(from_bounds(bbox, ds.transform))))
    /\ pc' = "fill"
    /\ UNCHANGED <<inputs, app_vars, metrics, points_lonlat, points_dem, bbox, min_elev, model_vars,
                   mesh_vars, output_vars>>

\* the window of the box, rounded, and the read of band 1 in it
ReadWindow ==
    /\ pc = "window"
    /\ LET w == round_lengths(round_offsets(from_bounds(bbox, ds.transform)))
           data == ReadWindowFilled(ds, w)
       IN  /\ window' = w
           /\ IF ArraySize(data) = 0
              THEN Raise(ErrEmptyWindow) /\ UNCHANGED dem
              ELSE /\ dem' = data
                   /\ pc' = "fill"
                   /\ UNCHANGED output_vars
    /\ UNCHANGED <<inputs, app_vars, metrics, points_lonlat, points_dem, bbox, min_elev, model_vars,
                   mesh_vars>>

\* the validity check and the fill of the invalid cells with the minimum
FillNodata ==
    /\ pc = "fill"
    /\ IF ~AnyFinite(dem)
       THEN Raise(ErrNoValid) /\ UNCHANGED <<dem, min_elev>>
       ELSE /\ min_elev' = nanmin(dem)
            /\ dem' = FillWithMin(dem, nanmin(dem))
            /\ pc' = "map"
            /\ UNCHANGED output_vars
    /\ UNCHANGED <<inputs, app_vars, metrics, points_lonlat, points_dem, bbox, window, model_vars,
                   mesh_vars>>

\* cell coordinates, their map to millimetres, the row flip, the heights and
\* the track in millimetres
MapToModel ==
    /\ pc = "map"
    /\ LET win_t == window_transform(ds.transform, window)
           x_coords == CellCoords(win_t.c, win_t.a, Len(dem[1]))
           y_coords == CellCoords(win_t.f, win_t.e, Len(dem))
           oriented == OrientRows(dem, y_coords)
       IN  /\ x_mm' = ModelX(x_coords, config)
           /\ y_mm' = ModelY(y_coords, config)
           /\ dem' = oriented
           /\ z_mm' = ModelZ(oriented, min_elev,
                             HorizScale(x_coords, y_coords, config), config)
           /\ track_xy_mm' = ModelTrack(points_dem, x_coords, y_coords, config)
    /\ pc' = "terrain"
    /\ UNCHANGED <<inputs, app_vars, metrics, points_lonlat, points_dem, bbox, window, min_elev,
                   mesh_vars, output_vars>>

BuildTerrain ==
    /\ pc = "terrain"
    /\ terrain_mesh' = build_terrain_mesh(x_mm, y_mm, z_mm, config.base_thickness_mm)
    /\ pc' = "track"
    /\ UNCHANGED <<inputs, app_vars, metrics, raster_vars, model_vars, track_width_mm, track_mesh,
                   final_mesh, output_vars>>

\* build_track_mesh is called without track_width_mm: the default applies
BuildTrack ==
    /\ pc = "track"
    /\ track_width_mm' = DEFAULT_TRACK_WIDTH_MM
    /\ track_mesh' = build_track_mesh(track_xy_mm, x_mm, y_mm, z_mm,
                                      config.track_height_mm, DEFAULT_TRACK_WIDTH_MM)
    /\ pc' = "concat"
    /\ UNCHANGED <<inputs, app_vars, metrics, raster_vars, model_vars, terrain_mesh, final_mesh,
                   output_vars>>

Concatenate ==
    /\ pc = "concat"
    /\ final_mesh' = concatenate(terrain_mesh, track_mesh)
    /\ pc' = "validate"
    /\ UNCHANGED <<inputs, app_vars, metrics, raster_vars, model_vars, track_width_mm, terrain_mesh,
                   track_mesh, output_vars>>

\* a validation that lets every mesh through
Validate_without_check ==
    /\ pc = "validate"
    /\ pc' = "export"
    /\ UNCHANGED <<inputs, app_vars, metrics, raster_vars, model_vars, mesh_vars, output_vars>>

\* if final_mesh.faces.shape[0] == 0: raise ValueError
Validate ==
    /\ pc = "validate"
    /\ IF Len(final_mesh.faces) = 0
       THEN Raise(ErrEmptyMesh)
       ELSE pc' = "export" /\ UNCHANGED output_vars
    /\ UNCHANGED <<inputs, app_vars, metrics, raster_vars, model_vars, mesh_vars>>

\* Path(stl_output_path).parent.mkdir(parents=True, exist_ok=True), then
\* final_mesh.export(stl_output_path).  Either call can raise: mkdir when the
\* directory cannot be made, export when the suffix of the path names no
\* exporter or the file cannot be opened; export runs after mkdir has
\* returned, and nothing removes the directory when export raises.
ExportOutcomes == {"written", "mkdir_raises", "export_raises"}

Export ==
    /\ pc = "export"
    /\ \E outcome \in ExportOutcomes :
           CASE outcome = "mkdir_raises" -> Raise(ErrMkdir)
             [] outcome = "export_raises" ->
                    /\ out_dir_created' = TRUE
                    /\ pc' = "failed"
                    /\ error' = ErrExport
                    /\ UNCHANGED stl_file
             [] OTHER ->
                    /\ out_dir_created' = TRUE
                    /\ stl_file' = final_mesh
                    /\ pc' = "done"
                    /\ UNCHANGED error
    /\ UNCHANGED <<inputs, app_vars, metrics, raster_vars, model_vars, mesh_vars>>

\* ------------------------------------------------------------------------
\* blender_backend.py: a call of _compute_dem_metrics, with the locals it
\* shares with run_python_pipeline kept in the same variables (dem holds
\* dem_filled, min_elev holds z_min_src)
\* ------------------------------------------------------------------------

InitMetrics ==
    \E g \in GpxInputs, kind \in RasterKinds, o \in Orientations, cfg \in ConfigInputs :
        /\ pc = "metrics"
        /\ gpx_trkpts = g
        /\ ds = Raster(kind, o)
        /\ config = cfg
        /\ points_lonlat = None /\ points_dem = None /\ bbox = None
        /\ window = None /\ dem = None /\ min_elev = None
        /\ x_mm = None /\ y_mm = None /\ z_mm = None
        /\ track_xy_mm = None /\ track_width_mm = None
        /\ terrain_mesh = None /\ track_mesh = None /\ final_mesh = None
        /\ out_dir_created = FALSE /\ stl_file = None /\ error = None
        /\ metrics = None
        /\ clip = None /\ download = None /\ main_window = None /\ sample = None

\* the part of _compute_dem_metrics after the CRS check
MetricsOfRaster(pts) ==
    \E pd \in {TransformToDem(pts)} :
    \E bb \in {_compute_bbox(pd, config.bbox_margin_ratio)} :
    \E w \in {round_lengths(round_offsets(from_bounds(bb, ds.transform)))} :
    \E data \in {ReadWindowFilled(ds, w)} :
        /\ points_dem' = pd
        /\ bbox' = bb
        /\ window' = w
        /\ IF ArraySize(data) = 0
           THEN Raise(ErrEmptyWindow) /\ UNCHANGED <<dem, min_elev, metrics>>
           ELSE IF ~AnyFinite(data)
           THEN Raise(ErrNoValid) /\ UNCHANGED <<dem, min_elev, metrics>>
           ELSE /\ min_elev' = ValidMin(data)
                /\ dem' = FillWithMin(data, ValidMin(data))
                /\ metrics' = DemMetrics(ds, w, data, pd, config)
                /\ pc' = "metrics_returned"
                /\ UNCHANGED output_vars

ComputeDemMetrics ==
    /\ pc = "metrics"
    /\ \E pts \in {GpxPoints(gpx_trkpts)} :
           IF GpxTooFewPoints(pts)
           THEN /\ Raise(ErrGpx)
                /\ UNCHANGED <<raster_vars, metrics>>
           ELSE IF ds.crs = None
           THEN /\ points_lonlat' = pts
                /\ Raise(ErrNoCrs)
                /\ UNCHANGED <<points_dem, bbox, window, dem, min_elev, metrics>>
           ELSE /\ points_lonlat' = pts
                /\ MetricsOfRaster(pts)
    /\ UNCHANGED <<inputs, app_vars, model_vars, mesh_vars>>

\* ------------------------------------------------------------------------
\* gpx_loader.py: a call of load_gpx_points on its own
\* ------------------------------------------------------------------------

InitLoader ==
    \E g \in LoaderInputs :
        /\ pc = "call_load"
        /\ gpx_trkpts = g
        /\ ds = None /\ config = None
        /\ points_lonlat = None /\ points_dem = None /\ bbox = None
        /\ window = None /\ dem = None /\ min_elev = None
        /\ x_mm = None /\ y_mm = None /\ z_mm = None
        /\ track_xy_mm = None /\ track_width_mm = None
        /\ terrain_mesh = None /\ track_mesh = None /\ final_mesh = None
        /\ out_dir_created = FALSE /\ stl_file = None /\ error = None
        /\ metrics = None
        /\ clip = None /\ download = None /\ main_window = None /\ sample = None

CallLoadGpxPoints ==
    /\ pc = "call_load"
    /\ IF GpxTooFewPoints(GpxPoints(gpx_trkpts))
       THEN /\ pc' = "load_failed"
            /\ error' = ErrGpx
            /\ UNCHANGED points_lonlat
       ELSE /\ points_lonlat' = GpxPoints(gpx_trkpts)
            /\ pc' = "loaded"
            /\ UNCHANGED error
    /\ UNCHANGED <<inputs, app_vars, metrics, points_dem, bbox, window, dem, min_elev, model_vars,
                   mesh_vars, out_dir_created, stl_file>>

\* ------------------------------------------------------------------------
\* pipeline.py: a call of _compute_bbox on its own (as compute_gpx_bbox_lonlat
\* makes it), on a non-empty array of points
\* ------------------------------------------------------------------------

\* points that coincide, that share an x or a y, and that share neither
BBoxPoints == {<<RZero, RZero>>, <<RZero, RInt(2)>>, <<<<-3, 2>>, RInt(2)>>, <<RInt(3), RInt(1)>>}

BBoxPointInputs == SeqsUpTo(BBoxPoints, MaxTrackLen) \ {<<>>}

\* margin ratios: none, the defaults 0.10 and 0.20, and a whole span
MarginInputs == {RZero, <<1, 10>>, <<1, 5>>, RInt(1)}

InitBBox ==
    \E pts \in BBoxPointInputs, ratio \in MarginInputs :
        /\ pc = "call_bbox"
        /\ points_dem = pts
        /\ config = Config(4, 4, 1, ratio)
        /\ gpx_trkpts = None /\ ds = None
        /\ points_lonlat = None /\ bbox = None
        /\ window = None /\ dem = None /\ min_elev = None
        /\ x_mm = None /\ y_mm = None /\ z_mm = None
        /\ track_xy_mm = None /\ track_width_mm = None
        /\ terrain_mesh = None /\ track_mesh = None /\ final_mesh = None
        /\ out_dir_created = FALSE /\ stl_file = None /\ error = None
        /\ metrics = None
        /\ clip = None /\ download = None /\ main_window = None /\ sample = None

CallComputeBBox ==
    /\ pc = "call_bbox"
    /\ bbox' = _compute_bbox(points_dem, config.bbox_margin_ratio)
    /\ pc' = "bbox_returned"
    /\ UNCHANGED <<inputs, app_vars, metrics, points_lonlat, points_dem, window, dem, min_elev,
                   model_vars, mesh_vars, output_vars>>

\* ------------------------------------------------------------------------
\* dem_downloader.py: a call of _run_elevation_clip and the child process it
\* starts.  Time is counted in whole units (a sleep of the loop takes at most
\* one); it passes while the call sleeps and while it waits in readline.
\* ------------------------------------------------------------------------

\* the clock stops here
MaxClock == 7

\* (idle_timeout_s, timeout_s) of the call
TimeoutInputs == {<<2, 4>>, <<1, 3>>, <<3, 2>>}

\* return code 124 of a timeout
RC_TIMEOUT == 124

InitClip ==
    \E t \in TimeoutInputs :
        /\ pc = "clip_popen"
        /\ clip = [idle_timeout_s |-> t[1], timeout_s |-> t[2],
                   now |-> 0, start |-> 0, last_output |-> 0,
                   child |-> "not_started", child_rc |-> 0,
                   pending |-> 0, eof |-> FALSE,
                   lines |-> <<>>, killed |-> FALSE, returned |-> None]
        /\ gpx_trkpts = None /\ ds = None /\ config = None
        /\ points_lonlat = None /\ points_dem = None /\ bbox = None
        /\ window = None /\ dem = None /\ min_elev = None
        /\ x_mm = None /\ y_mm = None /\ z_mm = None
        /\ track_xy_mm = None /\ track_width_mm = None
        /\ terrain_mesh = None /\ track_mesh = None /\ final_mesh = None
        /\ out_dir_created = FALSE /\ stl_file = None /\ error = None
        /\ metrics = None
        /\ download = None /\ main_window = None /\ sample = None

\* every variable but pc and clip
not_clip_vars ==
    <<inputs, raster_vars, model_vars, mesh_vars, output_vars, metrics, download,
      main_window, sample>>

\* subprocess.Popen(cmd, stdout=PIPE, stderr=STDOUT, text=True): the child
\* starts, or the command is missing and RuntimeError is raised
ClipPopen ==
    /\ pc = "clip_popen"
    /\ \/ /\ clip' = [clip EXCEPT !.child = "alive"]
          /\ pc' = "clip_readline"
       \/ /\ pc' = "clip_raised"
          /\ UNCHANGED clip
    /\ UNCHANGED not_clip_vars

ClipRunning == pc \in {"clip_readline", "clip_poll", "clip_check", "clip_sleep"}

\* the child writes a line to its output
ChildWrites ==
    /\ ClipRunning
    /\ clip.child = "alive" /\ ~clip.eof /\ clip.pending = 0
    /\ clip' = [clip EXCEPT !.pending = 1]
    /\ UNCHANGED <<pc, not_clip_vars>>

\* the child closes its output and goes on running
ChildClosesOutput ==
    /\ ClipRunning
    /\ clip.child = "alive" /\ ~clip.eof
    /\ clip' = [clip EXCEPT !.eof = TRUE]
    /\ UNCHANGED <<pc, not_clip_vars>>

\* the child ends with a return code; its output ends with it
ChildExits ==
    /\ ClipRunning
    /\ clip.child = "alive"
    /\ \E rc \in {0, 1} : clip' = [clip EXCEPT !.child = "exited", !.child_rc = rc, !.eof = TRUE]
    /\ UNCHANGED <<pc, not_clip_vars>>

\* line = p.stdout.readline() on the blocking pipe: it returns a line when
\* one is there, "" at the end of the output, and otherwise does not return
ClipReadline ==
    /\ pc = "clip_readline"
    /\ \/ /\ clip.pending > 0
          /\ clip' = [clip EXCEPT !.pending = 0, !.last_output = clip.now,
                                  !.lines = <<"line">>]
          /\ pc' = "clip_readline"
       \/ /\ clip.pending = 0 /\ clip.eof
          /\ pc' = "clip_poll"
          /\ UNCHANGED clip
    /\ UNCHANGED not_clip_vars

\* time passes while readline waits for the child
ClipWaitsInReadline ==
    /\ pc = "clip_readline"
    /\ clip.pending = 0 /\ ~clip.eof
    /\ clip.now < MaxClock
    /\ clip' = [clip EXCEPT !.now = clip.now + 1]
    /\ UNCHANGED <<pc, not_clip_vars>>

\* rc = p.poll(); if rc is not None: break; return p.returncode or 0, output
ClipPoll ==
    /\ pc = "clip_poll"
    /\ IF clip.child = "exited"
       THEN /\ clip' = [clip EXCEPT !.returned = clip.child_rc]
            /\ pc' = "clip_returned"
       ELSE /\ pc' = "clip_check"
            /\ UNCHANGED clip
    /\ UNCHANGED not_clip_vars

\* the idle timeout, then the total timeout: p.kill(), the note, return 124
ClipCheckTimeouts ==
    /\ pc = "clip_check"
    /\ IF clip.now - clip.last_output > clip.idle_timeout_s
       THEN /\ clip' = [clip EXCEPT !.killed = TRUE, !.child = "exited",
                                    !.lines = Append(clip.lines, "idle-timeout"),
                                    !.returned = RC_TIMEOUT]
            /\ pc' = "clip_returned"
       ELSE IF clip.now - clip.start > clip.timeout_s
       THEN /\ clip' = [clip EXCEPT !.killed = TRUE, !.child = "exited",
                                    !.lines = Append(clip.lines, "total-timeout"),
                                    !.returned = RC_TIMEOUT]
            /\ pc' = "clip_returned"
       ELSE /\ pc' = "clip_sleep"
            /\ UNCHANGED clip
    /\ UNCHANGED not_clip_vars

\* time.sleep(0.2)
ClipSleep ==
    /\ pc = "clip_sleep"
    /\ clip' = [clip EXCEPT !.now = IMin(clip.now + 1, MaxClock)]
    /\ pc' = "clip_readline"
    /\ UNCHANGED not_clip_vars

\* ------------------------------------------------------------------------
\* dem_downloader.py: download_srtm_dem_for_bbox.  The output file is "none",
\* "empty" (zero size) or "nonempty"; a call of _run_elevation_clip is one
\* step with one of its outcomes.
\* ------------------------------------------------------------------------

FileStates == {"none", "empty", "nonempty"}

\* the values of the parameter retries
RetryInputs == {0, 1, 2}

\* the sequence of n copies of x
Repeat(x, n) == [k \in 1..n |-> x]

\* a mutant of Products: the fallback product first
Products_fallback_first(retries) == <<"SRTM3">> \o Repeat("SRTM1", retries + 1)

\* products = ["SRTM1"] * (retries + 1) + ["SRTM3"]
Products(retries) == Repeat("SRTM1", retries + 1) \o <<"SRTM3">>

\* what a call of _run_elevation_clip can do: raise RuntimeError because the
\* command cannot be started, or return a code and leave the output file in
\* some state
ClipReturnCodes == {0, 1, RC_TIMEOUT}

\* in the record of an attempt: the call raised, there is no return code
NotStarted == -1

ErrArea == "ValueError: area"
ErrNoElevation == "RuntimeError: Comando 'elevation' non disponibile"
ErrDownload == "RuntimeError: Download DEM SRTM fallito"

InitDownload ==
    \E r \in RetryInputs, f \in FileStates, ok \in BOOLEAN :
        /\ pc = "dl_call"
        /\ download = [retries |-> r, area_ok |-> ok, products |-> <<>>, file |-> f,
                       attempts |-> <<>>, unlink_failed |-> FALSE, result |-> None]
        /\ gpx_trkpts = None /\ ds = None /\ config = None
        /\ points_lonlat = None /\ points_dem = None /\ bbox = None
        /\ window = None /\ dem = None /\ min_elev = None
        /\ x_mm = None /\ y_mm = None /\ z_mm = None
        /\ track_xy_mm = None /\ track_width_mm = None
        /\ terrain_mesh = None /\ track_mesh = None /\ final_mesh = None
        /\ out_dir_created = FALSE /\ stl_file = None /\ error = None
        /\ metrics = None
        /\ clip = None /\ main_window = None /\ sample = None

\* every variable but pc and download
not_download_vars ==
    <<inputs, raster_vars, model_vars, mesh_vars, output_vars, metrics, clip,
      main_window, sample>>

\* _validate_area, the reuse of an output file that is there and not empty,
\* and the list of products
DownloadStart ==
    /\ pc = "dl_call"
    /\ IF ~download.area_ok
       THEN /\ pc' = "dl_raised"
            /\ download' = [download EXCEPT !.result = ErrArea]
       ELSE IF download.file = "nonempty"
       THEN /\ pc' = "dl_returned"
            /\ download' = [download EXCEPT !.result = "out_path"]
       ELSE /\ pc' = "dl_attempt"
            /\ download' = [download EXCEPT !.products = Products(download.retries)]
    /\ UNCHANGED not_download_vars

\* one turn of the loop up to its return: the call of _run_elevation_clip for
\* the next product and the test of its outcome
DownloadAttempt ==
    /\ pc = "dl_attempt"
    /\ \E product \in {download.products[Len(download.attempts) + 1]} :
          \/ /\ pc' = "dl_raised"
             /\ download' = [download EXCEPT
                    !.attempts = Append(download.attempts,
                                        [product |-> product, rc |-> NotStarted, left |-> download.file]),
                    !.result = ErrNoElevation]
          \/ \E rc \in ClipReturnCodes, f \in FileStates :
                /\ download' = [download EXCEPT
                       !.attempts = Append(download.attempts,
                                           [product |-> product, rc |-> rc, left |-> f]),
                       !.file = f,
                       !.unlink_failed = FALSE,
                       !.result = IF rc = 0 /\ f = "nonempty" THEN "out_path" ELSE None]
                /\ pc' = IF rc = 0 /\ f = "nonempty" THEN "dl_returned" ELSE "dl_cleanup"
    /\ UNCHANGED not_download_vars

\* the rest of the turn: a zero-size file is unlinked (an OSError of unlink is
\* passed over), then the next product, or RuntimeError after the last one
DownloadCleanup ==
    /\ pc = "dl_cleanup"
    /\ \E unlinked \in BOOLEAN :
          /\ (download.file # "empty") => unlinked
          /\ \E last \in {Len(download.attempts) = Len(download.products)} :
                /\ download' = [download EXCEPT
                       !.file = IF download.file = "empty" /\ unlinked THEN "none" ELSE @,
                       !.unlink_failed = ~unlinked,
                       !.result = IF last THEN ErrDownload ELSE None]
                /\ pc' = IF last THEN "dl_raised" ELSE "dl_attempt"
    /\ UNCHANGED not_download_vars

\* ------------------------------------------------------------------------
\* A caller of sample_height_on_grid: it holds a grid and asks for the height
\* at one point.
\* ------------------------------------------------------------------------

\* query coordinates off the nodes: below the grid, inside cells, above it
OffNodeCoords == {<<-1, 1>>, <<1, 2>>, <<5, 4>>, <<7, 2>>, RInt(10)}

\* the coordinates of a[...] and the ones off the nodes
QueryCoords(a) == {a[i] : i \in 1..Len(a)} \cup OffNodeCoords

InitSample ==
    \E kind \in GridKinds, rows \in 1..MaxDim, cols \in 1..MaxDim :
        /\ pc = "call_sample"
        /\ x_mm = GridX(kind, cols)
        /\ y_mm = GridY(kind, rows)
        /\ z_mm = GridZ(kind, rows, cols)
        /\ \E px \in QueryCoords(GridX(kind, cols)), py \in QueryCoords(GridY(kind, rows)) :
               sample = [px |-> px, py |-> py, ix |-> None, iy |-> None, z |-> None]
        /\ config = None /\ gpx_trkpts = None /\ ds = None
        /\ points_lonlat = None /\ points_dem = None /\ bbox = None
        /\ window = None /\ dem = None /\ min_elev = None
        /\ track_xy_mm = None /\ track_width_mm = None
        /\ terrain_mesh = None /\ track_mesh = None /\ final_mesh = None
        /\ out_dir_created = FALSE /\ stl_file = None /\ error = None
        /\ metrics = None
        /\ clip = None /\ download = None /\ main_window = None

\* ix = np.clip(np.searchsorted(a, np.clip(p, a[0], a[-1]), side="right") - 1, 0, len(a) - 2)
CellIndex(a, p) ==
    IClip(searchsorted_right(a, RClip(p, a[1], a[Len(a)])) - 1, 0, Len(a) - 2)

CallSampleHeight ==
    /\ pc = "call_sample"
    /\ sample' = [sample EXCEPT
           !.ix = CellIndex(x_mm, sample.px),
           !.iy = CellIndex(y_mm, sample.py),
           !.z = sample_height_on_grid(x_mm, y_mm, z_mm, sample.px, sample.py)]
    /\ pc' = "sample_returned"
    /\ UNCHANGED <<inputs, raster_vars, model_vars, mesh_vars, output_vars, metrics,
                   clip, download, main_window>>

\* ------------------------------------------------------------------------
\* main_window.py: MainWindow and its background jobs.  The GUI thread takes
\* one event at a time: a click of the user, or a queued signal of a worker
\* or of its thread.  A job is a record of what it does, the state of its
\* QThread and the signals its Worker emitted.
\* ------------------------------------------------------------------------

\* the jobs a run of the window starts at most
MaxJobs == 2

\* self._thread = None: no job thread is registered (the jobs count from 1)
NoThread == 0

JobKinds == {"download DEM", "generazione"}

\* MainWindow.__init__: no thread, the progress bar at rest, the download
\* button disabled until a GPX is chosen
InitMainWindow ==
    /\ pc = "app"
    /\ main_window = [_thread |-> NoThread, progress_busy |-> FALSE,
                      generate_btn |-> TRUE, download_dem_btn |-> FALSE,
                      gpx_path |-> FALSE, dem_path |-> FALSE,
                      jobs |-> <<>>, queue |-> <<>>, dialogs |-> 0,
                      last_call |-> None]
    /\ gpx_trkpts = None /\ ds = None /\ config = None
    /\ points_lonlat = None /\ points_dem = None /\ bbox = None
    /\ window = None /\ dem = None /\ min_elev = None
    /\ x_mm = None /\ y_mm = None /\ z_mm = None
    /\ track_xy_mm = None /\ track_width_mm = None
    /\ terrain_mesh = None /\ track_mesh = None /\ final_mesh = None
    /\ out_dir_created = FALSE /\ stl_file = None /\ error = None
    /\ metrics = None
    /\ clip = None /\ download = None /\ sample = None

\* every variable but main_window
not_window_vars ==
    <<pc, inputs, raster_vars, model_vars, mesh_vars, output_vars, metrics, clip,
      download, sample>>

\* the user can act on the window: no modal dialog is open
WindowIdle == pc = "app" /\ main_window.dialogs = 0

\* a mutant of RunBackground: no test of self._thread
RunBackground_without_guard(what) ==
    /\ Len(main_window.jobs) < MaxJobs
    /\ main_window' = [main_window EXCEPT
           !.progress_busy = TRUE, !.generate_btn = FALSE, !.download_dem_btn = FALSE,
           !._thread = Len(main_window.jobs) + 1,
           !.jobs = Append(@, [what |-> what, thread |-> "running", emitted |-> {}]),
           !.last_call = "started"]

\* _run_background: with a thread registered, the warning and nothing else;
\* otherwise the progress bar goes busy, both buttons are disabled and a new
\* QThread is registered and started with its Worker
RunBackground(what) ==
    IF main_window._thread # NoThread
    THEN main_window' = [main_window EXCEPT !.dialogs = @ + 1, !.last_call = "rejected"]
    ELSE /\ Len(main_window.jobs) < MaxJobs
         /\ main_window' = [main_window EXCEPT
                !.progress_busy = TRUE, !.generate_btn = FALSE, !.download_dem_btn = FALSE,
                !._thread = Len(main_window.jobs) + 1,
                !.jobs = Append(@, [what |-> what, thread |-> "running", emitted |-> {}]),
                !.last_call = "started"]

\* _select_gpx with a file chosen
SelectGpx ==
    /\ WindowIdle
    /\ main_window' = [main_window EXCEPT !.gpx_path = TRUE, !.download_dem_btn = TRUE,
                                          !.last_call = None]
    /\ UNCHANGED not_window_vars

\* _select_dem with a file chosen
SelectDem ==
    /\ WindowIdle
    /\ main_window' = [main_window EXCEPT !.dem_path = TRUE, !.last_call = None]
    /\ UNCHANGED not_window_vars

\* a click of the download button: _download_dem
ClickDownloadDem ==
    /\ WindowIdle
    /\ main_window.download_dem_btn
    /\ IF ~main_window.gpx_path
       THEN main_window' = [main_window EXCEPT !.dialogs = @ + 1, !.last_call = None]
       ELSE RunBackground("download DEM")
    /\ UNCHANGED not_window_vars

\* a click of the generate button: _generate
ClickGenerate ==
    /\ WindowIdle
    /\ main_window.generate_btn
    /\ IF ~main_window.gpx_path \/ ~main_window.dem_path
       THEN main_window' = [main_window EXCEPT !.dialogs = @ + 1, !.last_call = None]
       ELSE RunBackground("generazione")
    /\ UNCHANGED not_window_vars

\* the user closes the modal dialog on top
CloseDialog ==
    /\ pc = "app"
    /\ main_window.dialogs > 0
    /\ main_window' = [main_window EXCEPT !.dialogs = @ - 1, !.last_call = None]
    /\ UNCHANGED not_window_vars

\* Worker.run in the job's thread: fn returns and finished is emitted, or fn
\* raises and failed is emitted; the slots connected to the signal are queued
\* for the GUI thread, the job's handler first, then QThread.quit
WorkerRun ==
    /\ pc = "app"
    /\ \E id \in 1..Len(main_window.jobs), signal \in {"finished", "failed"} :
          /\ main_window.jobs[id].thread = "running"
          /\ main_window.jobs[id].emitted = {}
          /\ main_window' = [main_window EXCEPT
                 !.jobs[id].emitted = {signal},
                 !.queue = @ \o <<[slot |-> IF signal = "finished" THEN "_on_worker_done"
                                                                  ELSE "_on_worker_error",
                                   id |-> id],
                                  [slot |-> "quit", id |-> id]>>,
                 !.last_call = None]
    /\ UNCHANGED not_window_vars

\* the GUI thread runs the first queued slot: _on_worker_done (the download's
\* on_done sets the DEM path and shows a dialog), _on_worker_error (a dialog),
\* QThread.quit, or _cleanup_thread
ProcessQueuedSlot ==
    /\ pc = "app"
    /\ main_window.queue # <<>>
    /\ \E ev \in {Head(main_window.queue)} :
          main_window' =
              CASE ev.slot = "_on_worker_done" ->
                       IF main_window.jobs[ev.id].what = "download DEM"
                       THEN [main_window EXCEPT !.queue = Tail(@), !.dem_path = TRUE,
                                                !.dialogs = @ + 1, !.last_call = None]
                       ELSE [main_window EXCEPT !.queue = Tail(@), !.last_call = None]
                [] ev.slot = "_on_worker_error" ->
                       [main_window EXCEPT !.queue = Tail(@), !.dialogs = @ + 1,
                                           !.last_call = None]
                [] ev.slot = "quit" ->
                       [main_window EXCEPT !.queue = Tail(@),
                                           !.jobs[ev.id].thread = "quitting",
                                           !.last_call = None]
                [] OTHER ->
                       [main_window EXCEPT !.queue = Tail(@),
                                           !._thread = NoThread,
                                           !.progress_busy = FALSE,
                                           !.generate_btn = TRUE,
                                           !.download_dem_btn = main_window.gpx_path,
                                           !.last_call = None]
    /\ UNCHANGED not_window_vars

\* the job's thread leaves its event loop and emits QThread.finished:
\* _cleanup_thread is queued for the GUI thread
ThreadFinishes ==
    /\ pc = "app"
    /\ \E id \in 1..Len(main_window.jobs) :
          /\ main_window.jobs[id].thread = "quitting"
          /\ main_window' = [main_window EXCEPT
                 !.jobs[id].thread = "finished",
                 !.queue = Append(@, [slot |-> "_cleanup_thread", id |-> id]),
                 !.last_call = None]
    /\ UNCHANGED not_window_vars

Init == InitBuilders \/ InitPipeline \/ InitMetrics \/ InitLoader \/ InitBBox \/ InitClip \/ InitDownload \/ InitSample \/ InitMainWindow

Next ==
    \/ CallBuildTerrainMesh
    \/ CallBuildTrackMesh
    \/ LoadTrack
    \/ Reproject
    \/ ComputeBBox
    \/ ReadWindow
    \/ FillNodata
    \/ MapToModel
    \/ BuildTerrain
    \/ BuildTrack
    \/ Concatenate
    \/ Validate
    \/ Export
    \/ ComputeDemMetrics
    \/ CallLoadGpxPoints
    \/ CallComputeBBox
    \/ ClipPopen
    \/ ChildWrites
    \/ ChildClosesOutput
    \/ ChildExits
    \/ ClipReadline
    \/ ClipWaitsInReadline
    \/ ClipPoll
    \/ ClipCheckTimeouts
    \/ ClipSleep
    \/ DownloadStart
    \/ DownloadAttempt
    \/ DownloadCleanup
    \/ CallSampleHeight
    \/ SelectGpx
    \/ SelectDem
    \/ ClickDownloadDem
    \/ ClickGenerate
    \/ CloseDialog
    \/ WorkerRun
    \/ ProcessQueuedSlot
    \/ ThreadFinishes

Spec == Init /\ [][Next]_vars


\* ------------------------------------------------------------------------
\* Properties of the terrain mesh
\* ------------------------------------------------------------------------

\* build_terrain_mesh has just returned (to the caller or to the pipeline)
TerrainJustBuilt == pc \in {"call_track", "track"}

GridRows == Len(z_mm)

GridCols == Len(z_mm[1])

\* the edges of a face, in the direction the face traverses them
FaceEdges(f) == {<<f[1], f[2]>>, <<f[2], f[3]>>, <<f[3], f[1]>>}

MeshEdges(mesh) == UNION {FaceEdges(mesh.faces[j]) : j \in 1..Len(mesh.faces)}

\* the number of faces of the mesh that traverse the edge from a to b
DirectedCount(mesh, a, b) ==
    Cardinality({j \in 1..Len(mesh.faces) : <<a, b>> \in FaceEdges(mesh.faces[j])})

IsClosedManifold(mesh) ==
    \A e \in MeshEdges(mesh) :
        /\ e[1] # e[2]
        /\ DirectedCount(mesh, e[1], e[2]) + DirectedCount(mesh, e[2], e[1]) = 2

\* C1: for a height grid of at least 2 rows and 2 columns the mesh returned by
\* build_terrain_mesh is a closed 2-manifold: every undirected edge of a face
\* belongs to exactly two faces.
C1_TerrainClosedManifold ==
    (TerrainJustBuilt /\ GridRows >= 2 /\ GridCols >= 2)
        => IsClosedManifold(terrain_mesh)

\* a 3 x 2 grid whose mesh (20 faces, 30 edges) has been returned
C1_Witness ==
    /\ pc = "call_track"
    /\ GridRows = 3 /\ GridCols = 2
    /\ Len(terrain_mesh.faces) = 20
    /\ Cardinality({{e[1], e[2]} : e \in MeshEdges(terrain_mesh)}) = 30

StrictlyIncreasing(a) == \A i \in 1..(Len(a) - 1) : RLt(a[i], a[i + 1])

\* the vector from vertex a to vertex b of a mesh with rational coordinates
Edge3(mesh, a, b) ==
    [k \in 1..3 |-> RSub(mesh.vertices[b + 1][k], mesh.vertices[a + 1][k])]

\* the (right-hand rule) normal of face f, not normalised
FaceNormal(mesh, f) ==
    LET u == Edge3(mesh, f[1], f[2])
        v == Edge3(mesh, f[1], f[3])
    IN  << RSub(RMul(u[2], v[3]), RMul(u[3], v[2])),
           RSub(RMul(u[3], v[1]), RMul(u[1], v[3])),
           RSub(RMul(u[1], v[2]), RMul(u[2], v[1])) >>

\* vertices 0 .. rows*cols-1 are the top copy, the rest the bottom copy
IsTopFace(f) == \A k \in 1..3 : f[k] < GridRows * GridCols

IsWallFace(f) ==
    /\ \E k \in 1..3 : f[k] < GridRows * GridCols
    /\ \E k \in 1..3 : f[k] >= GridRows * GridCols

\* the normal of a wall face points from the middle of the footprint towards
\* the face
WallFacesAway(mesh, f) ==
    LET n == FaceNormal(mesh, f)
        v == mesh.vertices[f[1] + 1]
        cx == RDiv(RAdd(x_mm[1], x_mm[Len(x_mm)]), RInt(2))
        cy == RDiv(RAdd(y_mm[1], y_mm[Len(y_mm)]), RInt(2))
    IN  RSign(RAdd(RMul(n[1], RSub(v[1], cx)), RMul(n[2], RSub(v[2], cy)))) > 0

\* C2: for strictly increasing x_mm and y_mm every top triangle of the terrain
\* mesh has a normal with positive Z and every wall triangle a normal that
\* points away from the inside of the footprint.
C2_TerrainFacesOutward ==
    (/\ TerrainJustBuilt /\ GridRows >= 2 /\ GridCols >= 2
     /\ StrictlyIncreasing(x_mm) /\ StrictlyIncreasing(y_mm))
        => \A j \in 1..Len(terrain_mesh.faces) :
               LET f == terrain_mesh.faces[j]
               IN  /\ IsTopFace(f) => RSign(FaceNormal(terrain_mesh, f)[3]) > 0
                   /\ IsWallFace(f) => WallFacesAway(terrain_mesh, f)

\* C3: the winding is consistent: every edge is traversed once in each
\* direction by the two faces that share it, and every top quad (r, c) is
\* split along the diagonal from node (r+1, c) to node (r, c+1), node (r, c)
\* being the vertex at (x_mm[c], y_mm[r], z_mm[r][c]).
C3_TerrainWindingConsistent ==
    (TerrainJustBuilt /\ GridRows >= 2 /\ GridCols >= 2)
        => /\ \A e \in MeshEdges(terrain_mesh) :
                  /\ DirectedCount(terrain_mesh, e[1], e[2]) = 1
                  /\ DirectedCount(terrain_mesh, e[2], e[1]) = 1
           /\ \A r \in 0..(GridRows - 1), c \in 0..(GridCols - 1) :
                  terrain_mesh.vertices[r * GridCols + c + 1]
                      = <<x_mm[c + 1], y_mm[r + 1], z_mm[r + 1][c + 1]>>
           /\ \A r \in 0..(GridRows - 2), c \in 0..(GridCols - 2) :
                  /\ <<(r + 1) * GridCols + c, r * GridCols + c + 1>>
                         \in MeshEdges(terrain_mesh)
                  /\ <<r * GridCols + c + 1, (r + 1) * GridCols + c>>
                         \in MeshEdges(terrain_mesh)
                  /\ <<r * GridCols + c, (r + 1) * GridCols + c + 1>>
                         \notin MeshEdges(terrain_mesh)
                  /\ <<(r + 1) * GridCols + c + 1, r * GridCols + c>>
                         \notin MeshEdges(terrain_mesh)

\* a bumpy 3 x 3 grid: 4 top quads, each with its diagonal, 32 faces
C3_Witness ==
    /\ pc = "call_track"
    /\ GridRows = 3 /\ GridCols = 3
    /\ z_mm[2][2] # z_mm[1][1]
    /\ Len(terrain_mesh.faces) = 32
    /\ \A r \in 0..1, c \in 0..1 :
           DirectedCount(terrain_mesh, (r + 1) * 3 + c, r * 3 + c + 1) = 1

\* C4: a height grid of fewer than 2 rows or fewer than 2 columns makes the
\* terrain stage fail with InsufficientResolutionError: build_terrain_mesh
\* never returns a mesh for it.
C4_DegenerateGridRejected ==
    ~(/\ TerrainJustBuilt
      /\ (GridRows < 2 \/ GridCols < 2)
      /\ error # "InsufficientResolutionError")

\* ------------------------------------------------------------------------
\* Properties of the track mesh
\* ------------------------------------------------------------------------

\* build_track_mesh has just returned (to the caller or to the pipeline)
TrackJustBuilt == pc \in {"returned", "concat"}

\* the distance of p0 and p1 is at least 1e-6 (mm): one coordinate differs by
\* that much, or the squares of the differences in units of 1e-6 sum to 1 or more
AtLeastMicro(p0, p1) ==
    LET dx == RMul(RInt(1000000), RAbs(RSub(p1[1], p0[1])))
        dy == RMul(RInt(1000000), RAbs(RSub(p1[2], p0[2])))
    IN  \/ RLe(RInt(1), dx)
        \/ RLe(RInt(1), dy)
        \/ RLe(RInt(1), RAdd(RMul(dx, dx), RMul(dy, dy)))

\* k: the number of consecutive point pairs at least 1e-6 apart
KeptPairs(track) ==
    Cardinality({i \in 1..(Len(track) - 1) : AtLeastMicro(track[i], track[i + 1])})

\* C5: build_track_mesh returns exactly 8 * k vertices and 12 * k faces, k
\* being the number of consecutive point pairs at least 1e-6 mm apart; a
\* 2-point track of non-degenerate length gives 8 vertices and 12 faces for
\* each length and width, a 3-point track with two such segments 24 faces.
C5_TrackMeshCounts ==
    TrackJustBuilt
        => /\ Len(track_mesh.vertices) = 8 * KeptPairs(track_xy_mm)
           /\ Len(track_mesh.faces) = 12 * KeptPairs(track_xy_mm)

\* a 3-point track of distinct points, one pair closer than 1e-6 and skipped,
\* the other kept: one prism
C5_Witness ==
    /\ pc = "returned"
    /\ Len(track_xy_mm) = 3
    /\ track_xy_mm[1] # track_xy_mm[2] /\ track_xy_mm[2] # track_xy_mm[3]
    /\ KeptPairs(track_xy_mm) = 1
    /\ Len(track_mesh.vertices) = 8 /\ Len(track_mesh.faces) = 12

\* the faces of the j-th prism (j from 0), as a mesh over the same vertices
PrismOf(mesh, j) ==
    Trimesh(mesh.vertices, SubSeq(mesh.faces, 12 * j + 1, 12 * j + 12))

\* C6: the 12 faces of the j-th kept segment reference only the vertices
\* 8j .. 8j+7, have 18 edges, and each edge is shared by exactly two of them,
\* which traverse it in opposite directions.
C6_PrismsIndependentClosed ==
    TrackJustBuilt
        => /\ Len(track_mesh.faces) * 8 = Len(track_mesh.vertices) * 12
           /\ \A j \in 0..((Len(track_mesh.vertices) \div 8) - 1) :
                  /\ \A e \in MeshEdges(PrismOf(track_mesh, j)) :
                         /\ e[1] \in (8 * j)..(8 * j + 7)
                         /\ e[1] # e[2]
                         /\ DirectedCount(PrismOf(track_mesh, j), e[1], e[2]) = 1
                         /\ DirectedCount(PrismOf(track_mesh, j), e[2], e[1]) = 1
                  /\ Cardinality({{e[1], e[2]} : e \in MeshEdges(PrismOf(track_mesh, j))}) = 18

\* two prisms, the second on the vertices 8 .. 15
C6_Witness ==
    /\ pc = "returned"
    /\ Len(track_mesh.vertices) = 16
    /\ \A j \in 13..24 : \A k \in 1..3 : track_mesh.faces[j][k] \in 8..15

\* the run is past build_track_mesh, which returned a mesh without vertices
PastEmptyTrack ==
    /\ \/ pc \in {"concat", "validate", "export", "done"}
       \/ pc = "failed" /\ error \in {ErrEmptyMesh, ErrMkdir, ErrExport}
    /\ Len(track_mesh.vertices) = 0

\* build_track_mesh returns the mesh of 0 vertices and 0 faces, without
\* raising, when no pair of consecutive points is at least 1e-6 mm apart
EmptyTrackIsReturned ==
    (TrackJustBuilt /\ KeptPairs(track_xy_mm) = 0)
        => track_mesh = Trimesh(<<>>, <<>>) /\ error = None

C8_TwoPointTrackWithinMargin ==
    (TrackJustBuilt /\ Len(track_xy_mm) = 2)
        => \A i \in 1..Len(track_mesh.vertices) : \A k \in 1..2 :
               SurdWithin(track_mesh.vertices[i][k],
                   RSub(RMin(track_xy_mm[1][k], track_xy_mm[2][k]),
                        RDiv(track_width_mm, RInt(2))),
                   RAdd(RMax(track_xy_mm[1][k], track_xy_mm[2][k]),
                        RDiv(track_width_mm, RInt(2))))

\* an oblique segment of width 2: 8 vertices, one of them left of both endpoints
C8_Witness ==
    /\ pc = "returned"
    /\ Len(track_xy_mm) = 2
    /\ track_xy_mm[1][1] # track_xy_mm[2][1] /\ track_xy_mm[1][2] # track_xy_mm[2][2]
    /\ track_width_mm = RInt(2)
    /\ Len(track_mesh.vertices) = 8
    /\ \E i \in 1..8 :
           ~SurdWithin(track_mesh.vertices[i][1],
                       RMin(track_xy_mm[1][1], track_xy_mm[2][1]),
                       RMax(track_xy_mm[1][1], track_xy_mm[2][1]))

\* ------------------------------------------------------------------------
\* Properties of the mapping into model space
\* ------------------------------------------------------------------------

\* run_python_pipeline has just computed x_mm, y_mm, z_mm and track_xy_mm
JustMapped == pc = "terrain"

\* The spans of the cell centres of the grid read: (columns - 1) pixel widths
\* and (rows - 1) pixel heights, and 1e-6 when there is one column or row.
SpanX == RMax(RMul(RInt(Len(dem[1]) - 1), RAbs(ds.transform.a)), <<1, 1000000>>)

SpanY == RMax(RMul(RInt(Len(dem) - 1), RAbs(ds.transform.e)), <<1, 1000000>>)

\* min(model_width / spanX, model_height / spanY) for a footprint w x h
AspectLockedScale(w, h) == RMin(RDiv(w, SpanX), RDiv(h, SpanY))

\* the largest height of a grid of heights
Peak(z) ==
    CHOOSE m \in {z[r][c] : r \in 1..Len(z), c \in 1..Len(z[1])} :
        \A r \in 1..Len(z), c \in 1..Len(z[1]) : RLe(z[r][c], m)

\* the cell-centre coordinates of the grid, as the pipeline computes them
WindowXCoords ==
    CellCoords(window_transform(ds.transform, window).c,
               window_transform(ds.transform, window).a, Len(dem[1]))

WindowYCoords ==
    CellCoords(window_transform(ds.transform, window).f,
               window_transform(ds.transform, window).e, Len(dem))

\* the heights the pipeline computes for the elevations read under config cfg
HeightsFor(cfg) ==
    ModelZ(dem, min_elev, HorizScale(WindowXCoords, WindowYCoords, cfg), cfg)

\* C9: every cell has z_mm = (elevation - zMin) * min(model_width / spanX,
\* model_height / spanY) * vertical_scale, zMin being the lowest elevation;
\* and a raster of span 2:1 on a square footprint S x S has half the peak
\* height it has on the footprint 2S x S matched to its span.
C9_AspectLockedHeights ==
    JustMapped
        => /\ \A r \in 1..Len(dem), c \in 1..Len(dem[1]) :
                  /\ RLe(min_elev, dem[r][c])
                  /\ z_mm[r][c] =
                         RMul(RMul(RSub(dem[r][c], min_elev),
                                   AspectLockedScale(config.model_width_mm,
                                                     config.model_height_mm)),
                              config.vertical_scale)
           /\ \E r \in 1..Len(dem), c \in 1..Len(dem[1]) : dem[r][c] = min_elev
           /\ (/\ SpanX = RMul(RInt(2), SpanY)
               /\ config.model_width_mm = config.model_height_mm
               /\ isfinite(min_elev))
                  => Peak(HeightsFor([config EXCEPT !.model_width_mm =
                                         RMul(RInt(2), config.model_height_mm)]))
                         = RMul(RInt(2), Peak(z_mm))

\* a raster window of span 2:1 with relief on a square footprint
C9_Witness ==
    /\ JustMapped
    /\ SpanX = RMul(RInt(2), SpanY)
    /\ config.model_width_mm = config.model_height_mm
    /\ RSign(Peak(z_mm)) > 0
    /\ Peak(z_mm) = RMul(RSub(Peak(dem), min_elev), RDiv(config.model_width_mm, SpanX))

\* the projected Y of the centre of raster row R (from 0)
RasterRowY(R) == RAdd(ds.transform.f, RMul(<<2 * R + 1, 2>>, ds.transform.e))

\* the raster rows that were read
RowsRead ==
    CropWindow(ds, window).row_start
        .. (CropWindow(ds, window).row_start + Len(dem) - 1)

\* the raster row read that has r rows read of smaller projected Y
RowOfRank(r) ==
    CHOOSE R \in RowsRead :
        Cardinality({Q \in RowsRead : RLt(RasterRowY(Q), RasterRowY(R))}) = r

\* the elevation of the raster cell, the lowest elevation where it is invalid
FilledCell(R, C) ==
    IF isfinite(ds.band[R + 1][C + 1]) THEN ds.band[R + 1][C + 1] ELSE min_elev

\* C10: row r of the height grid holds the raster row whose projected Y maps
\* to y_mm[r]; row 0 is the row of least projected Y and y_mm increases with
\* projected Y, whichever way the rows of the raster run.
C10_RowsFollowProjectedY ==
    JustMapped
        => /\ StrictlyIncreasing(y_mm)
           /\ \A r \in 0..(Len(dem) - 1) :
                  /\ y_mm[r + 1] =
                         RMul(RDiv(RSub(RasterRowY(RowOfRank(r)),
                                        RasterRowY(RowOfRank(0))), SpanY),
                              config.model_height_mm)
                  /\ \A c \in 0..(Len(dem[1]) - 1) :
                         z_mm[r + 1][c + 1] =
                             RMul(RMul(RSub(FilledCell(RowOfRank(r),
                                                CropWindow(ds, window).col_start + c),
                                            min_elev),
                                       AspectLockedScale(config.model_width_mm,
                                                         config.model_height_mm)),
                                  config.vertical_scale)

\* a raster whose rows run in decreasing Y: the grid's row 0 is the last row read
C10_Witness ==
    /\ JustMapped
    /\ RSign(ds.transform.e) < 0
    /\ Len(dem) >= 2
    /\ RowOfRank(0) = CropWindow(ds, window).row_start + Len(dem) - 1
    /\ z_mm[1] # z_mm[2]

\* ------------------------------------------------------------------------
\* Properties of the track in model space
\* ------------------------------------------------------------------------

\* the projected X of the centre of raster column C (from 0)
RasterColX(C) == RAdd(ds.transform.c, RMul(<<2 * C + 1, 2>>, ds.transform.a))

\* C11: a track point at the centre of the raster cell that grid cell (r, c)
\* was read from is mapped to (x_mm[c], y_mm[r]), the position of the terrain
\* vertex built for that cell.
C11_TrackAlignedWithTerrain ==
    JustMapped
        => \A i \in 1..Len(points_dem) :
               \A r \in 0..(Len(dem) - 1), c \in 0..(Len(dem[1]) - 1) :
                   points_dem[i] = <<RasterColX(CropWindow(ds, window).col_start + c),
                                     RasterRowY(RowOfRank(r))>>
                       => track_xy_mm[i] = <<x_mm[c + 1], y_mm[r + 1]>>

\* ------------------------------------------------------------------------
\* Properties of the elevations read
\* ------------------------------------------------------------------------

\* the fill has just been done (the rows are still in the order read)
JustFilled == pc = "map"

\* the value of the raster at cell (r, c) (from 1) of the grid as read
RawCell(r, c) ==
    ds.band[CropWindow(ds, window).row_start + r][CropWindow(ds, window).col_start + c]

ValidCells == {rc \in (1..Len(dem)) \X (1..Len(dem[1])) : isfinite(RawCell(rc[1], rc[2]))}

\* C12: zMin is the minimum over the valid cells only; after the fill every
\* invalid (masked or non-finite) cell holds zMin and every valid cell its
\* value, so no cell is below the lowest valid elevation, and no invalid
\* value is among the heights handed to the mesh builders.
C12_InvalidCellsFilledWithValidMin ==
    /\ JustFilled
           => /\ \E rc \in ValidCells : min_elev = RawCell(rc[1], rc[2])
              /\ \A rc \in ValidCells : RLe(min_elev, RawCell(rc[1], rc[2]))
              /\ \A r \in 1..Len(dem), c \in 1..Len(dem[1]) :
                     /\ dem[r][c] =
                            IF isfinite(RawCell(r, c)) THEN RawCell(r, c) ELSE min_elev
                     /\ isfinite(dem[r][c])
                     /\ RLe(min_elev, dem[r][c])
    /\ JustMapped
           => \A r \in 1..Len(z_mm), c \in 1..Len(z_mm[1]) : isfinite(z_mm[r][c])

\* ------------------------------------------------------------------------
\* Properties of _compute_dem_metrics
\* ------------------------------------------------------------------------

MetricsReturned == pc = "metrics_returned"

\* the lowest and the highest valid elevation of the grid read
LowestValid ==
    CHOOSE m \in {RawCell(rc[1], rc[2]) : rc \in ValidCells} :
        \A rc \in ValidCells : RLe(m, RawCell(rc[1], rc[2]))

HighestValid ==
    CHOOSE m \in {RawCell(rc[1], rc[2]) : rc \in ValidCells} :
        \A rc \in ValidCells : RLe(RawCell(rc[1], rc[2]), m)

\* zRange = max(zMax - zMin, 0)
ZRange == RMax(RSub(HighestValid, LowestValid), RZero)

\* zRange <= 1e-12
ZRangeNegligible == RLe(RMul(RMul(ZRange, RInt(1000)), RInt(1000)), <<1, 1000000>>)

\* C13: the normalized field is (filled - zMin) / zRange with zRange =
\* max(zMax - zMin, 0), every cell within [0, 1]; when zRange <= 1e-12 the
\* field is all zero (and nothing is divided by zRange).
C13_NormalizedField ==
    MetricsReturned
        => \E lowest \in {LowestValid}, range \in {ZRange},
              negligible \in {ZRangeNegligible},
              first_col \in {CropWindow(ds, window).col_start} :
               /\ min_elev = lowest
               /\ Len(metrics.normalized01) = Len(dem)
               /\ \A r \in 0..(Len(dem) - 1) :
                    \E row \in {RowOfRank(r)} :
                      \A c \in 0..(Len(dem[1]) - 1) :
                        \E n \in {metrics.normalized01[r + 1][c + 1]} :
                          /\ RLe(RZero, n) /\ RLe(n, RInt(1))
                          /\ negligible => n = RZero
                          /\ ~negligible
                               => RMul(n, range)
                                      = RSub(FilledCell(row, first_col + c), lowest)

\* a field with relief: zero at the lowest cell, one at the highest, and a
\* value strictly between them
C13_Witness ==
    /\ MetricsReturned
    /\ ~ZRangeNegligible
    /\ \E r \in 1..Len(dem), c \in 1..Len(dem[1]) :
           /\ RLt(RZero, metrics.normalized01[r][c])
           /\ RLt(metrics.normalized01[r][c], RInt(1))
    /\ \E r \in 1..Len(dem), c \in 1..Len(dem[1]) : metrics.normalized01[r][c] = RInt(1)

\* ------------------------------------------------------------------------
\* Properties of a flat grid
\* ------------------------------------------------------------------------

\* all valid cells of the grid read hold the same elevation
FlatGrid ==
    \A a \in ValidCells, b \in ValidCells : RawCell(a[1], a[2]) = RawCell(b[1], b[2])

\* C14: for a flat grid (all valid values equal) zRange is 0 and the
\* normalized field is all zero, and the terrain mesh that
\* run_python_pipeline builds has every top vertex at Z = 0 and every bottom
\* vertex at Z = -base_thickness_mm.
C14_FlatGridFlatTop ==
    /\ (pc = "track" /\ FlatGrid)
           => \A k \in 1..(GridRows * GridCols) :
                  /\ terrain_mesh.vertices[k][3] = RZero
                  /\ terrain_mesh.vertices[GridRows * GridCols + k][3]
                         = RNeg(config.base_thickness_mm)
    /\ (MetricsReturned /\ FlatGrid)
           => /\ ZRange = RZero
              /\ metrics.z_range_mm = RZero
              /\ \A r \in 1..Len(dem), c \in 1..Len(dem[1]) :
                     metrics.normalized01[r][c] = RZero

\* ------------------------------------------------------------------------
\* C15: a raster without a CRS
\* ------------------------------------------------------------------------

\* a run of run_python_pipeline or of _compute_dem_metrics (not a direct
\* call of a mesh builder, which opens no raster)
RasterRun ==
    pc \in {"load", "reproject", "bbox", "window", "fill", "map", "terrain", "track", "concat",
            "validate", "export", "done", "failed", "metrics", "metrics_returned"}

TrackLoads == ~GpxTooFewPoints(GpxPoints(gpx_trkpts))

\* C15: when the raster declares no CRS, the run never gets past the CRS
\* check: it is before that check or it has failed; the track is never
\* transformed (points_dem), no bounding box is derived from transformed
\* points, no window is computed or read; and a run whose track was
\* loaded, once it has ended, has ended with the missing-CRS error.
C15_NoCrsFailsBeforeTransform ==
    (RasterRun /\ ds.crs = None) =>
        /\ pc \in {"load", "reproject", "metrics", "failed"}
        /\ points_dem = None /\ bbox = None /\ window = None /\ dem = None
        /\ metrics = None
        /\ clip = None /\ download = None /\ main_window = None /\ sample = None
        /\ pc = "failed" => error \in {ErrGpx, ErrNoCrs}
        /\ (pc = "failed" /\ TrackLoads) => error = ErrNoCrs
        /\ (pc = "failed" /\ ~TrackLoads) => error = ErrGpx

\* a run on a raster without CRS, with a loaded track, has failed on the
\* CRS check
C15_Witness ==
    /\ RasterRun
    /\ ds.crs = None
    /\ pc = "failed"
    /\ error = ErrNoCrs
    /\ TrackLoads
    /\ points_dem = None /\ window = None

\* ------------------------------------------------------------------------
\* C16: a window read without cells
\* ------------------------------------------------------------------------

\* the run has computed the window and read it
WindowWasRead ==
    \/ pc \in {"fill", "map", "terrain", "track", "concat", "validate", "export", "done",
               "metrics_returned"}
    \/ pc = "failed" /\ error \in {ErrEmptyWindow, ErrNoValid, ErrEmptyMesh, ErrMkdir, ErrExport}

\* the array read in the window has zero rows or zero columns
ZeroAreaRead ==
    WindowWasRead /\ \E cw \in {CropWindow(ds, window)} : cw.nrows = 0 \/ cw.ncols = 0

\* C16: when the array read in the computed window has zero rows or zero
\* columns, the run has failed with the empty-window error (not with the
\* no-valid-data error, whose check comes later), no elevation array is
\* kept, no mesh is built and nothing is written; and the empty-window
\* error is raised for such a read only.
C16_ZeroAreaWindowFailsFirst ==
    /\ ZeroAreaRead =>
           /\ pc = "failed"
           /\ error = ErrEmptyWindow
           /\ error # ErrNoValid
           /\ dem = None /\ min_elev = None
           /\ terrain_mesh = None /\ track_mesh = None /\ final_mesh = None
           /\ stl_file = None /\ ~out_dir_created
    /\ (RasterRun /\ pc = "failed" /\ error = ErrEmptyWindow) => ZeroAreaRead

\* a run has read a window without cells and has failed on it
C16_Witness ==
    /\ ZeroAreaRead
    /\ pc = "failed"
    /\ error = ErrEmptyWindow
    /\ RFloor(window.width) >= 1 /\ RFloor(window.height) >= 1

\* ------------------------------------------------------------------------
\* C17: a window without a valid cell
\* ------------------------------------------------------------------------

\* the extent of the raster in projected units, from its transform and size
RasterLeft == RMin(ds.transform.c, RAdd(ds.transform.c, RMul(ds.transform.a, RInt(ds.width))))

RasterRight == RMax(ds.transform.c, RAdd(ds.transform.c, RMul(ds.transform.a, RInt(ds.width))))

RasterBottom == RMin(ds.transform.f, RAdd(ds.transform.f, RMul(ds.transform.e, RInt(ds.height))))

RasterTop == RMax(ds.transform.f, RAdd(ds.transform.f, RMul(ds.transform.e, RInt(ds.height))))

\* the bounding box of the track has no point in common with the raster
BBoxOutsideRaster ==
    \/ RLt(bbox[3], RasterLeft) \/ RLt(RasterRight, bbox[1])
    \/ RLt(bbox[4], RasterBottom) \/ RLt(RasterTop, bbox[2])

\* the window was read and none of its cells (if any) is valid
EveryCellInvalid ==
    /\ WindowWasRead
    /\ \E data \in {ReadWindowFilled(ds, window)} :
           \A r \in 1..Len(data) : \A c \in 1..Len(data[r]) : ~isfinite(data[r][c])

\* no mesh of any kind has been built or written
NoMeshProduced ==
    /\ terrain_mesh = None /\ track_mesh = None /\ final_mesh = None
    /\ stl_file = None /\ ~out_dir_created

\* the run is at the validity check or has ended on it
StoppedAtValidityCheck ==
    /\ pc \in {"fill", "failed"}
    /\ pc = "failed" => error = ErrNoValid
    /\ NoMeshProduced

C17_OutsideWitness ==
    /\ WindowWasRead
    /\ BBoxOutsideRaster
    /\ pc = "failed"
    /\ error = ErrEmptyWindow

\* ------------------------------------------------------------------------
\* C18: the order of the stages of run_python_pipeline
\* ------------------------------------------------------------------------

\* the stages in the order of the claim, named by the position of the run
\* before each, and the position after the last
Stages ==
    <<"load", "reproject", "bbox", "window", "fill", "map", "terrain", "track", "concat",
      "validate", "export", "done">>

StageNumber(p) == CHOOSE i \in 1..Len(Stages) : Stages[i] = p

InStage == \E i \in 1..(Len(Stages) - 1) : Stages[i] = pc

\* the errors with which each stage can end the run
StageErrors(p) ==
    CASE p = "load" -> {ErrGpx}
      [] p = "reproject" -> {ErrNoCrs}
      [] p = "window" -> {ErrEmptyWindow}
      [] p = "fill" -> {ErrNoValid}
      [] p = "validate" -> {ErrEmptyMesh}
      [] p = "export" -> {ErrMkdir, ErrExport}
      [] OTHER -> {}

\* a step of a stage either completes it, and the run is before the next
\* stage of the list with no error, or fails it, and the run has ended with
\* an error of that stage
StageStep ==
    \/ pc' = Stages[StageNumber(pc) + 1] /\ error' = None
    \/ pc' = "failed" /\ error' \in StageErrors(pc)

\* C18: the run is linear and all-or-nothing.  Every step of a run is the
\* step of the one stage the run is at; it goes to the next stage in the
\* order load, reproject, bounding box, window, fill, map, terrain, track,
\* concatenate, validate, export, or ends the run with that stage's error;
\* no step leaves an ended run (no later stage, no retry); and a run that
\* has failed has created no output directory and written no STL file.
C18_LinearAllOrNothing ==
    [][/\ pc \notin {"done", "failed"}
       /\ InStage => StageStep
       /\ pc' = "failed" => (~out_dir_created' /\ stl_file' = None)]_vars

\* the same without the outputs of a failed export: the order of the stages
\* and the absence of output for a failure of any stage before the export
LinearUntilExport ==
    [][/\ pc \notin {"done", "failed"}
       /\ InStage => StageStep
       /\ (pc' = "failed" /\ pc # "export") => (~out_dir_created' /\ stl_file' = None)
       /\ (pc' = "failed" /\ error' = ErrMkdir) => (~out_dir_created' /\ stl_file' = None)
       /\ pc' = "failed" => stl_file' = None]_vars

\* ------------------------------------------------------------------------
\* C19: the final validation
\* ------------------------------------------------------------------------

\* the run has passed or failed the validation of the concatenated mesh
PastValidation ==
    \/ pc \in {"export", "done"}
    \/ pc = "failed" /\ error \in {ErrEmptyMesh, ErrMkdir, ErrExport}

\* C19: once the validation has run, the concatenation of terrain mesh and
\* track mesh has zero faces exactly when the run has failed with the
\* empty-mesh error, and then no directory is made and no file written;
\* the run goes on to the export, and the exported file holds a mesh, only
\* when that mesh is the concatenation and has at least one face.
C19_EmptyMeshNeverExported ==
    PastValidation =>
        /\ final_mesh = concatenate(terrain_mesh, track_mesh)
        /\ Len(final_mesh.faces) = 0 <=> (pc = "failed" /\ error = ErrEmptyMesh)
        /\ Len(final_mesh.faces) = 0 => (stl_file = None /\ ~out_dir_created)
        /\ pc \in {"export", "done"} => Len(final_mesh.faces) >= 1
        /\ pc = "done" => (stl_file = final_mesh /\ Len(stl_file.faces) >= 1)
        /\ pc # "done" => stl_file = None

\* a run whose concatenated mesh has no face has failed the validation
C19_Witness ==
    /\ pc = "failed"
    /\ error = ErrEmptyMesh
    /\ Len(final_mesh.faces) = 0
    /\ Len(final_mesh.vertices) > 0
    /\ stl_file = None
    /\ ~out_dir_created

\* ------------------------------------------------------------------------
\* C20: load_gpx_points
\* ------------------------------------------------------------------------

\* the positions, in the file, of the trkpt elements that carry both a lat
\* and a lon attribute
CompletePositions ==
    {i \in 1..Len(gpx_trkpts) :
        "lat" \in DOMAIN gpx_trkpts[i] /\ "lon" \in DOMAIN gpx_trkpts[i]}

\* load_gpx_points has returned (on its own or as the first stage of a run)
LoaderReturned == pc \in {"loaded", "reproject"}

\* load_gpx_points has raised
LoaderRaised == pc = "load_failed" \/ (pc = "failed" /\ error = ErrGpx)

\* C20: load_gpx_points returns one (longitude, latitude) pair for each
\* trkpt that has both coordinates, in the order of the file, and never
\* fewer than 2 of them; it fails, with its error and without a result,
\* exactly when fewer than 2 trkpt elements have both coordinates.
C20_LoaderOrderAndMinimum ==
    /\ LoaderReturned =>
           /\ Len(points_lonlat) >= 2
           /\ Len(points_lonlat) = Cardinality(CompletePositions)
           /\ \A i \in CompletePositions :
                  \E j \in {Cardinality({k \in CompletePositions : k <= i})} :
                      /\ points_lonlat[j][1] = RInt(gpx_trkpts[i].lon)
                      /\ points_lonlat[j][2] = RInt(gpx_trkpts[i].lat)
    /\ LoaderRaised =>
           /\ Cardinality(CompletePositions) < 2
           /\ error = ErrGpx
           /\ points_lonlat = None

\* a file in which an incomplete trkpt stands between two complete ones,
\* the second of which differs from the first, has been loaded
C20_Witness ==
    /\ pc = "loaded"
    /\ Len(gpx_trkpts) = 3
    /\ CompletePositions = {1, 3}
    /\ Len(points_lonlat) = 2
    /\ points_lonlat[1] # points_lonlat[2]
    /\ points_lonlat[2][1] # points_lonlat[2][2]

\* ------------------------------------------------------------------------
\* C21: the bounding box
\* ------------------------------------------------------------------------

\* _compute_bbox has returned the box of points_dem (on its own, or as the
\* stage of a run)
BBoxComputed == pc \in {"bbox_returned", "window"}

\* the least and the greatest of the k-th coordinates of the points
LeastCoord(k) ==
    CHOOSE m \in {points_dem[i][k] : i \in 1..Len(points_dem)} :
        \A i \in 1..Len(points_dem) : ~RLt(points_dem[i][k], m)

GreatestCoord(k) ==
    CHOOSE m \in {points_dem[i][k] : i \in 1..Len(points_dem)} :
        \A i \in 1..Len(points_dem) : ~RLt(m, points_dem[i][k])

\* the box is the extent of the points widened on each axis by that axis'
\* margin, and every point lies in it
BoxIsExtentPlusMargins ==
    /\ \A k \in 1..2 :
           \E m \in {IF RLt(RSub(GreatestCoord(k), LeastCoord(k)), <<1, 1000000>>)
                     THEN RMul(<<1, 1000000>>, config.bbox_margin_ratio)
                     ELSE RMul(RSub(GreatestCoord(k), LeastCoord(k)),
                               config.bbox_margin_ratio)} :
               /\ bbox[k] = RSub(LeastCoord(k), m)
               /\ bbox[k + 2] = RAdd(GreatestCoord(k), m)
    /\ \A i \in 1..Len(points_dem) :
           /\ RLe(bbox[1], points_dem[i][1]) /\ RLe(points_dem[i][1], bbox[3])
           /\ RLe(bbox[2], points_dem[i][2]) /\ RLe(points_dem[i][2], bbox[4])

BoxNonDegenerate == RLt(bbox[1], bbox[3]) /\ RLt(bbox[2], bbox[4])

\* C21 as stated: for every non-empty point set and every non-negative
\* margin ratio, the box is the extent of the points widened by
\* max(span, 1e-6) * ratio on each axis, it contains every point, and it is
\* not degenerate: minx < maxx and miny < maxy.
C21_BBoxNonDegenerate ==
    BBoxComputed => BoxIsExtentPlusMargins /\ BoxNonDegenerate

\* C21 as amended: the same, with the box not degenerate for every margin
\* ratio above zero; with a margin ratio of zero the box is the extent of
\* the points itself, which is degenerate on an axis exactly when all the
\* points coincide on it.
C21_BBoxNonDegenerateForPositiveMargin ==
    BBoxComputed =>
        /\ BoxIsExtentPlusMargins
        /\ RLt(RZero, config.bbox_margin_ratio) => BoxNonDegenerate
        /\ config.bbox_margin_ratio = RZero =>
               \A k \in 1..2 : (bbox[k] = bbox[k + 2]) <=> (LeastCoord(k) = GreatestCoord(k))

\* points that coincide on the x axis only, boxed with a positive margin
C21_Witness ==
    /\ pc = "bbox_returned"
    /\ Len(points_dem) >= 2
    /\ LeastCoord(1) = GreatestCoord(1)
    /\ LeastCoord(2) # GreatestCoord(2)
    /\ RLt(RZero, config.bbox_margin_ratio)
    /\ RSub(bbox[3], bbox[1]) = RMul(<<2, 1000000>>, config.bbox_margin_ratio)

\* ------------------------------------------------------------------------
\* C22: the rounding of the window
\* ------------------------------------------------------------------------

\* the window of the bounding box before it is rounded
FractionalWindow == from_bounds(bbox, ds.transform)

\* on one axis, the whole-pixel interval [off, off + len] covers the
\* fractional interval [foff, foff + flen]
IntervalCovers(off, len, foff, flen) ==
    \E o \in {off}, l \in {len}, fo \in {foff}, fl \in {flen} :
        /\ ~RLt(fo, o)
        /\ ~RLt(RAdd(o, l), RAdd(fo, fl))

\* C22: the rounded window covers the whole fractional window of the
\* bounding box: on both axes the rounded offset is at most the fractional
\* offset, and the rounded offset plus the rounded length is at least the
\* fractional offset plus the fractional length.
C22_RoundedWindowCoversBox ==
    (RasterRun /\ WindowWasRead) =>
        \E fw \in {FractionalWindow} :
            /\ IntervalCovers(window.col_off, window.width, fw.col_off, fw.width)
            /\ IntervalCovers(window.row_off, window.height, fw.row_off, fw.height)

\* ------------------------------------------------------------------------
\* C23: the width of the track ridge
\* ------------------------------------------------------------------------

\* the run has built its track mesh
TrackStageDone == pc \in {"concat", "validate", "export", "done"}

\* C23: the width build_track_mesh used for the prisms of the run is a field
\* of the configuration record passed to run_python_pipeline (its track
\* width), not a value the caller did not supply.
C23_TrackWidthFromConfig ==
    TrackStageDone =>
        /\ "track_width_mm" \in DOMAIN config
        /\ track_width_mm = config["track_width_mm"]

\* ------------------------------------------------------------------------
\* C24: _compute_dem_metrics against run_python_pipeline
\* ------------------------------------------------------------------------

\* what _compute_dem_metrics returns for the track, the window and the
\* configuration of the run
MetricsOfRun == DemMetrics(ds, window, ReadWindowFilled(ds, window), points_dem, config)

\* the lowest valid elevation _compute_dem_metrics finds in the window
MetricsZMin == ValidMin(ReadWindowFilled(ds, window))

\* C24: for the same track, raster window and configuration the two
\* implementations agree: the same zMin, the same track in millimetres, and
\* for every cell normalized01 * z_range_mm * vertical_scale is the height
\* z_mm of the pipeline (so the same zRange, the same horizontal scale and
\* the same flip of the rows).
C24_MetricsAgreeWithPipeline ==
    JustMapped =>
        /\ min_elev = MetricsZMin
        /\ \E m \in {MetricsOfRun} :
               /\ m.track_xy_mm = track_xy_mm
               /\ Len(m.normalized01) = Len(z_mm)
               /\ \A r \in 1..Len(z_mm) :
                      /\ Len(m.normalized01[r]) = Len(z_mm[r])
                      /\ \A c \in 1..Len(z_mm[r]) :
                             RMul(RMul(m.normalized01[r][c], m.z_range_mm),
                                  config.vertical_scale) = z_mm[r][c]

\* the same on the runs whose window has no infinite cell
AgreeOnFiniteOrNaN ==
    (JustMapped /\ \A r \in 1..Len(z_mm) : \A c \in 1..Len(z_mm[r]) :
                       isfinite(RawCell(r, c)) \/ RawCell(r, c) = NaN)
        => C24_MetricsAgreeWithPipeline

\* ------------------------------------------------------------------------
\* C25: normalising a normalised field
\* ------------------------------------------------------------------------

\* the values of the field _compute_dem_metrics returned
FieldValues ==
    {metrics.normalized01[r][c] :
        r \in 1..Len(metrics.normalized01), c \in 1..Len(metrics.normalized01[1])}

\* C25: the field returned by the normaliser is a fixed point of it:
\* normalising it again (zMin and zMax over its cells, all of them valid,
\* (v - zMin) / zRange clipped to [0, 1], all zero when zRange <= 1e-12)
\* returns the same field, for a field that is not flat (its least value
\* is 0 and its greatest 1) and for the all-zero field of a flat window.
C25_NormalizationIdempotent ==
    MetricsReturned =>
        /\ Normalize(metrics.normalized01) = metrics.normalized01
        /\ \/ FieldValues = {RZero}
           \/ /\ ValidMin(metrics.normalized01) = RZero
              /\ ValidMax(metrics.normalized01) = RInt(1)

\* a returned field that is not flat and has a value strictly between 0 and 1
C25_Witness ==
    /\ MetricsReturned
    /\ RInt(1) \in FieldValues
    /\ \E v \in FieldValues : RLt(RZero, v) /\ RLt(v, RInt(1))
    /\ Normalize(metrics.normalized01) = metrics.normalized01

\* ------------------------------------------------------------------------
\* C26: the timeouts of _run_elevation_clip
\* ------------------------------------------------------------------------

\* the child of the call has been silent for longer than idle_timeout_s, or
\* the call has lasted longer than timeout_s, by more than the one unit a
\* sleep of the loop can add
ClipOverdue ==
    \/ clip.now - clip.last_output > clip.idle_timeout_s + 1
    \/ clip.now - clip.start > clip.timeout_s + 1

\* C26: the call never hangs.  While it has not returned, its child has not
\* been silent for longer than idle_timeout_s and the call has not lasted
\* longer than timeout_s (a sleep of the loop apart): past either limit the
\* child has been killed and the call has returned 124 with the timeout
\* noted in its output.
C26_ClipNeverHangs ==
    /\ (ClipRunning /\ clip.child = "alive") => ~ClipOverdue
    /\ (pc = "clip_returned" /\ clip.killed) =>
           /\ clip.returned = RC_TIMEOUT
           /\ clip.lines[Len(clip.lines)] \in {"idle-timeout", "total-timeout"}

\* the timeouts do work once the output of a living child has ended
TimeoutsAfterEndOfOutput ==
    (ClipRunning /\ clip.child = "alive" /\ clip.eof) =>
        /\ clip.now - clip.last_output <= clip.idle_timeout_s + 1
           \/ clip.now - clip.start <= clip.timeout_s + 1

\* ------------------------------------------------------------------------
\* C27: retries and fallback of download_srtm_dem_for_bbox
\* ------------------------------------------------------------------------

DownloadRun == pc \in {"dl_attempt", "dl_cleanup", "dl_returned", "dl_raised"}

\* the attempt exited with code 0 and left a non-empty output file
AttemptSucceeded(a) == a.rc = 0 /\ a.left = "nonempty"

\* the products attempted so far: SRTM1 for the first retries+1 attempts,
\* then SRTM3, and never more than retries+2 attempts
AttemptsInOrder ==
    /\ Len(download.attempts) <= download.retries + 2
    /\ \A k \in 1..Len(download.attempts) :
           download.attempts[k].product =
               IF k <= download.retries + 1 THEN "SRTM1" ELSE "SRTM3"

\* the run stops at the first attempt that succeeds, returning the path
StopsAtFirstSuccess ==
    /\ \A k \in 1..Len(download.attempts) :
           AttemptSucceeded(download.attempts[k]) =>
               /\ k = Len(download.attempts)
               /\ pc = "dl_returned" /\ download.result = "out_path"
    /\ (pc = "dl_returned" /\ download.attempts # <<>>) =>
           AttemptSucceeded(download.attempts[Len(download.attempts)])

\* all of the retries+2 attempts have been made and none succeeded
EveryAttemptFailed ==
    /\ Len(download.attempts) = download.retries + 2
    /\ \A k \in 1..Len(download.attempts) : ~AttemptSucceeded(download.attempts[k])

RaisedRuntimeError == pc = "dl_raised" /\ download.result \in {ErrNoElevation, ErrDownload}

\* C27 as stated: with no usable output file the function attempts SRTM1
\* retries+1 times and then SRTM3 once, in that order, stops at the first
\* attempt that exits with 0 and leaves a non-empty file, makes at most
\* retries+2 attempts, has removed a zero-size file before the next attempt,
\* and raises RuntimeError only after every attempt has failed.
C27_RetryThenFallback ==
    DownloadRun =>
        /\ AttemptsInOrder
        /\ StopsAtFirstSuccess
        /\ (pc = "dl_attempt" /\ download.attempts # <<>>) => download.file # "empty"
        /\ RaisedRuntimeError => EveryAttemptFailed

\* C27 amended: the same, except that RuntimeError is also raised at once,
\* with no further attempt, by an attempt that cannot start the command, and
\* that a zero-size file is gone before the next attempt when its unlink
\* succeeded.
C27_RetryThenFallbackUnlessNotStarted ==
    DownloadRun =>
        /\ AttemptsInOrder
        /\ StopsAtFirstSuccess
        /\ (pc = "dl_attempt" /\ download.attempts # <<>> /\ ~download.unlink_failed) =>
               download.file # "empty"
        /\ (pc = "dl_attempt" /\ download.unlink_failed) => download.file = "empty"
        /\ RaisedRuntimeError =>
               \/ download.result = ErrDownload /\ EveryAttemptFailed
               \/ /\ download.result = ErrNoElevation
                  /\ download.attempts[Len(download.attempts)].rc = NotStarted
                  /\ \A k \in 1..(Len(download.attempts) - 1) :
                         ~AttemptSucceeded(download.attempts[k])

\* the fallback product succeeds after every SRTM1 attempt has failed, one of
\* them having left a zero-size file
C27_Witness ==
    /\ pc = "dl_returned"
    /\ download.retries >= 1
    /\ Len(download.attempts) = download.retries + 2
    /\ download.attempts[1].left = "empty"
    /\ download.attempts[Len(download.attempts)].product = "SRTM3"

\* ------------------------------------------------------------------------
\* C28: sample_height_on_grid
\* ------------------------------------------------------------------------

SampleReturned == pc = "sample_returned"

\* p clamped to [a[0], a[-1]]
Clamped(a, p) ==
    IF RLt(p, a[1]) THEN a[1] ELSE IF RLt(a[Len(a)], p) THEN a[Len(a)] ELSE p

\* the pairs (i, i + 1) of neighbouring samples of a that enclose v; for a
\* single sample, the pair (1, 1)
EnclosingPairs(a, v) ==
    IF Len(a) = 1 THEN {<<1, 1>>}
    ELSE {<<i, i + 1>> : i \in {k \in 1..(Len(a) - 1) : RLe(a[k], v) /\ RLe(v, a[k + 1])}}

\* the fractional offset of v between a[i] and a[j]
OffsetIn(a, v, i, j) ==
    IF a[i] = a[j] THEN RZero ELSE RDiv(RSub(v, a[i]), RSub(a[j], a[i]))

\* the bilinear interpolation at (x, y) of the corners of the cell between
\* columns cx[1], cx[2] and rows cy[1], cy[2]
InterpolatedIn(cx, cy, x, y) ==
    Bilinear(z_mm[cy[1]][cx[1]], z_mm[cy[1]][cx[2]],
             z_mm[cy[2]][cx[1]], z_mm[cy[2]][cx[2]],
             OffsetIn(x_mm, x, cx[1], cx[2]), OffsetIn(y_mm, y, cy[1], cy[2]))

\* the indexes the call read on an axis, from the cell index i
IndexesRead(i) == {i, i + 1}

\* C28: the height returned is the bilinear interpolation, by fractional
\* offset, of the corners of every cell that encloses the clamped query point;
\* a query outside the extent gives what the clamped point gives; a query on
\* a node (x_mm[i], y_mm[j]) gives exactly z_mm[j][i], last row and column
\* included; and every index read lies inside the grid.
C28_SampleIsClampedBilinear ==
    SampleReturned =>
        \E x \in {Clamped(x_mm, sample.px)}, y \in {Clamped(y_mm, sample.py)} :
            /\ \A cx \in EnclosingPairs(x_mm, x), cy \in EnclosingPairs(y_mm, y) :
                   sample.z = InterpolatedIn(cx, cy, x, y)
            /\ EnclosingPairs(x_mm, x) # {} /\ EnclosingPairs(y_mm, y) # {}
            /\ sample.z = sample_height_on_grid(x_mm, y_mm, z_mm, x, y)
            /\ \A i \in 1..Len(x_mm), j \in 1..Len(y_mm) :
                   (sample.px = x_mm[i] /\ sample.py = y_mm[j]) => sample.z = z_mm[j][i]
            /\ \A i \in IndexesRead(sample.ix) : -Len(x_mm) <= i /\ i < Len(x_mm)
            /\ \A j \in IndexesRead(sample.iy) : -Len(y_mm) <= j /\ j < Len(y_mm)
            /\ Len(x_mm) >= 2 => sample.ix \in 0..(Len(x_mm) - 2)
            /\ Len(y_mm) >= 2 => sample.iy \in 0..(Len(y_mm) - 2)

\* a query on the node of the last row and column of a grid of several cells
\* whose heights differ
C28_Witness ==
    /\ SampleReturned
    /\ Len(x_mm) >= 3 /\ Len(y_mm) >= 3
    /\ sample.px = x_mm[Len(x_mm)] /\ sample.py = y_mm[Len(y_mm)]
    /\ sample.z = z_mm[Len(y_mm)][Len(x_mm)]
    /\ sample.z # z_mm[Len(y_mm) - 1][Len(x_mm) - 1]

\* a query outside the extent on both axes, answered from inside a cell edge
C28_OutsideWitness ==
    /\ SampleReturned
    /\ Len(x_mm) >= 2 /\ Len(y_mm) >= 2
    /\ RLt(sample.px, x_mm[1]) /\ RLt(y_mm[Len(y_mm)], sample.py)
    /\ sample.z = z_mm[Len(y_mm)][1]

\* ------------------------------------------------------------------------
\* C29: the coordinate arrays handed to the builders
\* ------------------------------------------------------------------------

\* a runs from 0 to size_mm, strictly increasing
FillsAxis(a, size_mm) ==
    /\ \A i \in 1..(Len(a) - 1) : RLt(a[i], a[i + 1])
    /\ a[1] = RZero
    /\ a[Len(a)] = size_mm

WindowAtLeastTwoByTwo == Len(dem) >= 2 /\ Len(dem[1]) >= 2

\* C29: for every window of at least 2 columns and 2 rows and every sign of
\* the pixel width and height, x_mm and y_mm are strictly increasing, x_mm
\* runs from 0 to model_width_mm and y_mm from 0 to model_height_mm.
C29_CoordinateArraysFillFootprint ==
    (JustMapped /\ WindowAtLeastTwoByTwo) =>
        /\ FillsAxis(x_mm, config.model_width_mm)
        /\ FillsAxis(y_mm, config.model_height_mm)

\* what the code does keep: y_mm on every raster, x_mm on the rasters whose
\* pixel width is positive
CoordinateArraysForPositivePixelWidth ==
    (JustMapped /\ WindowAtLeastTwoByTwo) =>
        /\ FillsAxis(y_mm, config.model_height_mm)
        /\ RSign(ds.transform.a) > 0 => FillsAxis(x_mm, config.model_width_mm)

\* ------------------------------------------------------------------------
\* C30: one background job at a time in MainWindow
\* ------------------------------------------------------------------------

AppRun == pc = "app"

\* the jobs whose thread has been started and has not finished
JobsAlive ==
    {id \in 1..Len(main_window.jobs) : main_window.jobs[id].thread # "finished"}

\* _cleanup_thread is still to run for the job
CleanupQueued(id) ==
    \E k \in 1..Len(main_window.queue) :
        main_window.queue[k] = [slot |-> "_cleanup_thread", id |-> id]

\* at most one job runs, and it is the registered one; while it runs the
\* generate button is disabled; the registered thread is cleared only once
\* the job's thread has finished and its _cleanup_thread has run
OneJobAtATime ==
    AppRun =>
        /\ Cardinality(JobsAlive) <= 1
        /\ \A id \in JobsAlive :
               /\ main_window._thread = id
               /\ ~main_window.generate_btn
               /\ main_window.progress_busy
        /\ \A id \in 1..Len(main_window.jobs) :
               /\ CleanupQueued(id) =>
                      main_window._thread = id /\ ~main_window.generate_btn
               /\ (main_window.jobs[id].thread = "finished" /\ ~CleanupQueued(id)) =>
                      main_window._thread # id
               /\ main_window.jobs[id].thread # "running" =>
                      Cardinality(main_window.jobs[id].emitted) = 1
               /\ Cardinality(main_window.jobs[id].emitted) <= 1
        /\ (JobsAlive = {} /\ main_window.queue = <<>>) =>
               /\ main_window._thread = NoThread
               /\ main_window.generate_btn
               /\ ~main_window.progress_busy

\* a call of _run_background with a thread registered starts no thread and
\* leaves the registered thread, the progress bar and the buttons as they are
RejectedCallChangesNothing ==
    (AppRun /\ main_window'.last_call = "rejected") =>
        /\ main_window._thread # NoThread
        /\ main_window'._thread = main_window._thread
        /\ main_window'.jobs = main_window.jobs
        /\ main_window'.progress_busy = main_window.progress_busy
        /\ main_window'.generate_btn = main_window.generate_btn
        /\ main_window'.download_dem_btn = main_window.download_dem_btn

\* the registered thread is cleared, and the generate button enabled again,
\* only by a step taken after that thread has finished
ClearedOnlyAfterFinished ==
    (AppRun /\ main_window._thread # NoThread) =>
        /\ main_window'._thread \in {NoThread, main_window._thread}
        /\ (main_window'._thread = NoThread \/ main_window'.generate_btn) =>
               /\ main_window.jobs[main_window._thread].thread = "finished"
               /\ main_window'._thread = NoThread /\ main_window'.generate_btn

\* C30: at most one background job runs at any time; a call of
\* _run_background while a thread is registered changes nothing; the thread
\* is cleared and the generate button enabled again only after the job's
\* thread has finished, and that is how every job ends, whether its worker
\* emitted finished or failed (exactly one of the two).
C30_OneBackgroundJob ==
    /\ []OneJobAtATime
    /\ [][RejectedCallChangesNothing /\ ClearedOnlyAfterFinished]_vars

\* a download is asked for while a generation runs, and is turned away
C30_Witness ==
    /\ AppRun
    /\ main_window.last_call = "rejected"
    /\ main_window._thread # NoThread
    /\ main_window.jobs[main_window._thread].what = "generazione"

\* a job whose worker emitted failed has been cleaned up, and a second job
\* has been started after it
C30_FailedJobWitness ==
    /\ AppRun
    /\ Len(main_window.jobs) = 2
    /\ main_window.jobs[1].emitted = {"failed"}
    /\ main_window.jobs[1].thread = "finished"
    /\ main_window._thread = 2

====
